---- MODULE Spec2Model ----
(***************************************************************************)
(* A model of python/tvm/relay/backend/contrib/tidl.py: the TIDL backend   *)
(* of Relay.  The parts of the file are modelled each as its own           *)
(* specification over the shared variables:                                *)
(*   SpecCalib   subgraph_calibration's parse of the tool's console output *)
(*   SpecEnable  TIDLCompiler.enable with TIDLImport.ImportRelayIR         *)
(*   SpecPrune   PruneSubgraphsWithMoreThanOneInput and PruneSubgraphs     *)
(*   SpecQuant   tensor_quant_flatten                                      *)
(*   SpecGraph   traverse_expr, find_in_nodes, find_out_nodes and the      *)
(*               import of a subgraph's Call and Tuple nodes               *)
(*   SpecStage   subgraph_calibration's staging of the tool's files        *)
(*   SpecConv    TIDLImport.tidl_import_conv2d                             *)
(*   SpecMultiply    RemoveMultiplyByOne                                   *)
(*   SpecCalibGraph  CalibrationGraphMutator.make_calibration_graph        *)
(*   SpecUnpack  UnpackComposites and PruneSubgraphsWithMoreThanOneInput   *)
(***************************************************************************)
EXTENDS Integers, Sequences, FiniteSets, TLC

VARIABLES
    \* ---- subgraph_calibration
    console_out,      \* the tool's decoded stdout, a sequence of tokens
    error,            \* the tool's decoded stderr: "" or "stderr"
    launched,         \* FALSE when Popen/communicate/decode raised
    cpc,              \* "call" before subgraph_calibration ran, "done" after
    cret,             \* what subgraph_calibration produced
    \* ---- TIDLCompiler.enable
    input,            \* len(input): the number of named input tensors
    kwargs,           \* the keyword arguments __init__ stored as attributes
    tidl_tools_path,  \* the value of that attribute: "None" or "path"
    calib_tool_exists,\* os.path.exists(tidl_calib_tool)
    import_lib_exists,\* os.path.exists(tidl_import_lib)
    pc,               \* enable's position
    steps,            \* the pipeline steps enable has executed, in order
    lib,              \* the native import library: unloaded, open, closed
    ret,              \* enable's return value
    import_success,   \* ImportRelayIR's return value
    \* ---- TIDLImport.ImportRelayIR
    tidl_subgraphs,   \* len(tidl_subgraphs)
    sg,               \* index of the subgraph being imported
    ipc,              \* ImportRelayIR's position
    events,           \* the import actions performed and how each ended
    out_data_q,       \* the scales the last calibration returned
    output_fp,        \* len(output_fp): the captured output tensors
    cfg_written,      \* the subgraphN.cfg files written, with their lists
    \* ---- PruneSubgraphsWithMoreThanOneInput, PruneSubgraphs
    mod_in,           \* the module the last pruning pass was given
    mod,              \* the current module: the last pass's new_mod
    passes,           \* the pruning passes run so far, in order
    subgraphs_to_remove, \* the last pass's set of names to remove
    num_subgraphs_to_keep, \* the K given to PruneSubgraphs
    raised,           \* TRUE when the last pass ended in an exception
    \* ---- tensor_quant_flatten
    input_tensor,     \* the captured float tensor: its shape and batches
    data_layout,      \* "NCHW" or "NHWC"
    qpc,              \* "call" before tensor_quant_flatten ran, "done" after
    qret,             \* what tensor_quant_flatten returned
    \* ---- the import of one subgraph's nodes
    graph,            \* the subgraph function's expression nodes
    node_dict,        \* all_nodes: the Node Index Map traverse_expr fills
    visits,           \* the nodes traverse_expr was called with, in order
    gpc,              \* position: "index", "calls", "tuples", "done", "failed"
    cursor,           \* the index of the next node of the import loops
    lib_calls,        \* the calls made into the native import library
    gret,             \* the last node import: its node and how it ended
    \* ---- the staging steps of subgraph_calibration
    stage_fs,         \* the working directory: tempDir and its files
    spc,              \* subgraph_calibration's position in lines 507-540
    child,            \* the rm, mkdir and cp child processes
    stage_log,        \* what took effect on the file system, in order
    tool_saw,         \* the file system when the calibration tool started
    \* ---- TIDLImport.tidl_import_conv2d
    weights,          \* the kernel: its shape and its elements in C order
    kernel_layout,    \* this_node.attrs.kernel_layout
    weight_type,      \* weight.checked_type.dtype
    weight_kind,      \* "Constant", or "Var" for a name found in params
    padding,          \* this_node.attrs.padding
    vpc,              \* "call" before tidl_import_conv2d ran, "done" after
    vret,             \* its return value and the export call it made
    \* ---- the expression passes
    pass_in,          \* the function or module the pass was given
    pass_mid,         \* the module between UnpackComposites and the pruning
    pass_out,         \* what the pass returned
    ppc               \* "call" before the pass ran, then "done", "again"

calibVars  == <<console_out, error, launched, cpc, cret>>
enableVars == <<input, kwargs, tidl_tools_path, calib_tool_exists,
                import_lib_exists, pc, steps, lib, ret, import_success>>
importVars == <<tidl_subgraphs, sg, ipc, events, out_data_q, output_fp,
                cfg_written>>
pruneVars  == <<mod_in, mod, passes, subgraphs_to_remove,
                num_subgraphs_to_keep, raised>>
quantVars  == <<input_tensor, data_layout, qpc, qret>>
graphVars  == <<graph, node_dict, visits, gpc, cursor, lib_calls, gret>>
stageVars  == <<stage_fs, spc, child, stage_log, tool_saw>>
convVars   == <<weights, kernel_layout, weight_type, weight_kind, padding,
                vpc, vret>>
passVars   == <<pass_in, pass_mid, pass_out, ppc>>
vars == <<calibVars, enableVars, importVars, pruneVars, quantVars, graphVars,
          stageVars, convVars, passVars>>

(***************************************************************************)
(* Bounds of the model.                                                    *)
(***************************************************************************)
MaxSegs      == 3   \* segments of console output
MaxInputs    == 3   \* named input tensors handed to enable
MaxSubgraphs == 2   \* tidl subgraphs called from main
MaxTensors   == 2   \* captured boundary tensors matching one name prefix
MaxSites     == 3   \* call sites on main's dataflow chain
MaxK         == 3   \* num_subgraphs_to_keep

Min(a, b) == IF a < b THEN a ELSE b
Max(a, b) == IF a > b THEN a ELSE b

(***************************************************************************)
(* Console text.  The tool's stdout is a sequence of tokens: the three     *)
(* literal phrases the parser splits on, a piece of text holding "error"   *)
(* or "ERROR", any other digit-free text, and digit runs (the naturals).   *)
(***************************************************************************)
MARK == -1          \* "Number of output dataQ:"
SEP  == -2          \* ". Output dataQ:"
END  == -3          \* "End of output dataQ"
ERR  == -4          \* text containing "error" or "ERROR"
TXT  == -5          \* any other text without digits

\* str.find(tok): the first position of tok, 0 for Python's -1
Find(s, tok) ==
    IF \E i \in 1..Len(s) : s[i] = tok
    THEN CHOOSE i \in 1..Len(s) : s[i] = tok /\ \A j \in 1..(i-1) : s[j] # tok
    ELSE 0

\* str.rfind(tok): the last position of tok, 0 for Python's -1
RFind(s, tok) ==
    IF \E i \in 1..Len(s) : s[i] = tok
    THEN CHOOSE i \in 1..Len(s) : s[i] = tok /\ \A j \in (i+1)..Len(s) : s[j] # tok
    ELSE 0

\* str.split(tok, 1): cut at the FIRST occurrence of tok; one piece if absent
SplitOnce(s, tok) ==
    LET i == Find(s, tok) IN
    IF i = 0 THEN <<s>> ELSE <<SubSeq(s, 1, i-1), SubSeq(s, i+1, Len(s))>>

\* int(text) succeeds on one digit run (surrounding blanks allowed) only
IntParsable(s) == Len(s) = 1 /\ s[1] >= 0

\* re.findall(r"\d+", text): the digit runs, in order
IsDigits(tok) == tok >= 0
FindAllDigits(s) == SelectSeq(s, IsDigits)

CalibFail   == [status |-> "False", outq |-> <<>>]
CalibRaise  == [status |-> "raise", outq |-> <<>>]
CalibOk(q)  == [status |-> "True",  outq |-> q]

\* lines 556-566: the text the count and scales are parsed from
LastLine(out) == SplitOnce(out, MARK)[2]

\* lines 549-570 once the marker is known to be present
ParseDataQ(last_line) ==
    LET head == SplitOnce(last_line, SEP) IN
    IF ~IntParsable(head[1]) THEN CalibRaise           \* int(): ValueError
    ELSE IF Len(head) < 2 THEN CalibRaise              \* [1]: IndexError
    ELSE LET num_outputs == head[1][1]
             quants == SplitOnce(head[2], END)[1]
             outq == FindAllDigits(quants)
         IN IF num_outputs # Len(outq) THEN CalibFail ELSE CalibOk(outq)

\* lines 537-570
SubgraphCalibration(ok, out, err) ==
    IF ~ok THEN CalibFail
    ELSE IF Find(out, ERR) = 0 /\ err = ""
         THEN IF RFind(out, MARK) = 0 THEN CalibFail
              ELSE ParseDataQ(LastLine(out))
         ELSE CalibFail

Report(n, q) == <<MARK, n, SEP>> \o q \o <<END>>

(***************************************************************************)
(* SpecCalib: subgraph_calibration applied to every console output that is *)
(* a concatenation of at most MaxSegs segments, a segment being one token  *)
(* or one complete report of the tool.                                     *)
(***************************************************************************)
Digits == {1, 2, 7, 100, 200}
Segments ==
    {<<MARK>>, <<SEP>>, <<END>>, <<ERR>>, <<TXT>>}
    \cup {<<d>> : d \in Digits}
    \cup {Report(1, <<7>>), Report(2, <<100, 200>>), Report(2, <<7>>)}

RECURSIVE Flatten(_)
Flatten(ss) == IF ss = <<>> THEN <<>> ELSE Head(ss) \o Flatten(Tail(ss))

Consoles == UNION {{Flatten(ss) : ss \in [1..k -> Segments]} : k \in 0..MaxSegs}

NoRet == [graph |-> "none", status |-> 0]

EnableIdle ==
    /\ input = 1 /\ kwargs = {} /\ tidl_tools_path = "None"
    /\ calib_tool_exists = FALSE /\ import_lib_exists = FALSE
    /\ pc = "idle" /\ steps = <<>> /\ lib = "unloaded" /\ ret = NoRet
    /\ import_success = "unset"
    /\ tidl_subgraphs = 0 /\ sg = 0 /\ ipc = "idle" /\ events = <<>>
    /\ out_data_q = <<>> /\ output_fp = 0 /\ cfg_written = {}

EmptyModule == [funcs |-> <<>>, main |-> <<>>]

PruneIdle ==
    /\ mod_in = EmptyModule /\ mod = EmptyModule /\ passes = <<>>
    /\ subgraphs_to_remove = {} /\ num_subgraphs_to_keep = 0
    /\ raised = FALSE

CalibIdle ==
    /\ console_out = <<>> /\ error = "" /\ launched = TRUE
    /\ cpc = "idle" /\ cret = CalibFail

EmptyTensor == [shape |-> <<>>, batches |-> <<>>]
NoQuant == [output |-> <<>>, scale |-> [num |-> 0, den |-> 1], sign |-> 0]

QuantIdle ==
    /\ input_tensor = EmptyTensor /\ data_layout = "NCHW"
    /\ qpc = "idle" /\ qret = NoQuant

NoImport == [node |-> 0, ret |-> "none", handler |-> "none", linkfail |-> 0]

GraphIdle ==
    /\ graph = <<>> /\ node_dict = <<>> /\ visits = <<>>
    /\ gpc = "idle" /\ cursor = 0 /\ lib_calls = <<>>
    /\ gret = NoImport

NoFs == [dir |-> FALSE, files |-> {}, raw |-> FALSE]
NoChildren == [rm |-> "unborn", mkdir |-> "unborn", cp |-> "unborn"]
StageIdle ==
    /\ stage_fs = NoFs /\ spc = "idle" /\ child = NoChildren
    /\ stage_log = <<>> /\ tool_saw = NoFs

NoWeights == [shape |-> <<>>, data |-> <<>>]
NoConv == [status |-> "none", calls |-> <<>>]
ConvIdle ==
    /\ weights = NoWeights /\ kernel_layout = "" /\ weight_type = ""
    /\ weight_kind = "" /\ padding = <<>> /\ vpc = "idle" /\ vret = NoConv

PassIdle ==
    /\ pass_in = <<>> /\ pass_mid = <<>> /\ pass_out = <<>> /\ ppc = "idle"

InitCalib ==
    /\ console_out \in Consoles
    /\ error \in {"", "stderr"}
    /\ launched \in BOOLEAN
    /\ cpc = "call"
    /\ cret = CalibFail
    /\ EnableIdle
    /\ PruneIdle
    /\ QuantIdle
    /\ GraphIdle
    /\ StageIdle /\ ConvIdle /\ PassIdle

\* subgraph_calibration, lines 503-570
CalibrationRun ==
    /\ cpc = "call"
    /\ cret' = SubgraphCalibration(launched, console_out, error)
    /\ cpc' = "done"
    /\ UNCHANGED <<console_out, error, launched, enableVars, importVars,
                   pruneVars, quantVars, graphVars,
                   stageVars, convVars, passVars>>

NextCalib == CalibrationRun
SpecCalib == InitCalib /\ [][NextCalib]_vars

\* the number of occurrences of tok in s
Count(s, tok) == Cardinality({i \in 1..Len(s) : s[i] = tok})
\* the text after the last occurrence of tok
AfterLast(s, tok) == SubSeq(s, RFind(s, tok) + 1, Len(s))
CalibClean == launched /\ Find(console_out, ERR) = 0 /\ error = ""

\* C10: when the marker occurs more than once, the count and the scales are
\* parsed from the text after its LAST occurrence; the single report
\* "Number of output dataQ: 2. Output dataQ: 100, 200End of output dataQ"
\* yields [100, 200].
C10_ParsedFromLastMarker ==
    (cpc = "done" /\ CalibClean) =>
        /\ Count(console_out, MARK) > 1 =>
               cret = ParseDataQ(AfterLast(console_out, MARK))
        /\ console_out = <<TXT>> \o Report(2, <<100, 200>>) \o <<TXT>> =>
               cret = CalibOk(<<100, 200>>)

\* the count the output declares after the marker, -1 when the text before
\* ". Output dataQ:" is not a number or the separator is missing
DeclaredCount(out) ==
    LET head == SplitOnce(LastLine(out), SEP) IN
    IF IntParsable(head[1]) /\ Len(head) = 2 THEN head[1][1] ELSE -1
\* the integers between ". Output dataQ:" and "End of output dataQ"
ParsedScales(out) ==
    LET head == SplitOnce(LastLine(out), SEP) IN
    IF Len(head) = 2 THEN FindAllDigits(SplitOnce(head[2], END)[1]) ELSE <<>>
CalibWellFormed ==
    /\ CalibClean
    /\ RFind(console_out, MARK) # 0
    /\ DeclaredCount(console_out) = Len(ParsedScales(console_out))

\* C11: subgraph_calibration returns (True, scales) if and only if the tool
\* launched, stdout holds neither "error" nor "ERROR", stderr is empty, the
\* marker is present and the declared count equals the number of integers
\* parsed; in every other case it returns (False, None); on success
\* len(scales) is the declared count.
C11_TrueIffWellFormed ==
    cpc = "done" =>
        /\ cret.status = "True" <=> CalibWellFormed
        /\ ~CalibWellFormed => cret = CalibFail
        /\ cret.status = "True" =>
              Len(cret.outq) = DeclaredCount(console_out)

\* C27: for every output of the calibration tool, also one that holds the
\* marker but lacks the ". Output dataQ:" separator or declares a count that
\* is not a number, subgraph_calibration reports failure by returning
\* (False, None), never by raising; and ImportRelayIR returns False, never
\* raises, for a subgraph without a captured input tensor.
C27_FailureIsReturnedNotRaised ==
    /\ cpc = "done" => cret.status \in {"True", "False"}
    /\ \A i \in 1..Len(events) :
          events[i].what = "input" => events[i].res # "raise"

(***************************************************************************)
(* SpecEnable: one call of TIDLCompiler.enable, statement group by         *)
(* statement group, with ImportRelayIR's loop over the tidl subgraphs.     *)
(* What the environment decides (the arguments, the files on disk, the     *)
(* native library's answers, the tool's output, the captured tensors) is   *)
(* chosen when the code reads it.                                          *)
(***************************************************************************)
Keys == {"num_tidl_subgraphs", "data_layout", "artifacts_folder", "tidl_tools_path"}

\* line 1322 with the comparison off by one
MultiInputOffByOne(n) == n > 2

\* line 1322: len(input) > 1
MultiInput(n) == n > 1

\* line 1351 with "or" for "and"
ToolsExistEither(calib, implib) == calib \/ implib

\* line 1351: both tool files exist
ToolsExist(calib, implib) == calib /\ implib

\* lines 1324, 1359, 1362, 1365, 1368: the (graph, status) pairs returned
RetMultiInput == [graph |-> "mod_orig", status |-> -1]
RetSuccess    == [graph |-> "mod",      status |-> 1]
RetFailure    == [graph |-> "mod_orig", status |-> -1]
RetSkipped    == [graph |-> "mod_orig", status |-> 0]

\* what a calibration run inside ImportRelayIR may print
ConsoleSamples ==
    {Report(1, <<7>>), Report(2, <<100, 200>>), Report(2, <<7>>),
     <<TXT>>, <<ERR>>, <<MARK, TXT>>}

InitEnable ==
    /\ input \in 0..MaxInputs
    /\ kwargs \in SUBSET Keys
    /\ tidl_tools_path \in {"None", "path"}
    /\ calib_tool_exists \in BOOLEAN
    /\ import_lib_exists \in BOOLEAN
    /\ pc = "entry" /\ steps = <<>> /\ lib = "unloaded" /\ ret = NoRet
    /\ import_success = "unset"
    /\ tidl_subgraphs = 0 /\ sg = 0 /\ ipc = "idle" /\ events = <<>>
    /\ out_data_q = <<>> /\ output_fp = 0 /\ cfg_written = {}
    /\ CalibIdle
    /\ PruneIdle
    /\ QuantIdle
    /\ GraphIdle
    /\ StageIdle /\ ConvIdle /\ PassIdle

EnvUnchanged == UNCHANGED <<input, kwargs, tidl_tools_path, calib_tool_exists,
                            import_lib_exists, calibVars, pruneVars,
                            quantVars, graphVars,
                   stageVars, convVars, passVars>>

\* an exception leaves enable: nothing is returned
Raise == pc' = "raised" /\ UNCHANGED <<ret, lib>>

\* lines 1322-1327
EnableEntry ==
    /\ pc = "entry"
    /\ IF MultiInput(input)
       THEN pc' = "done" /\ ret' = RetMultiInput
       ELSE pc' = "partition" /\ ret' = ret
    /\ UNCHANGED <<steps, lib, import_success, importVars>>
    /\ EnvUnchanged

\* lines 1329-1342: the passes, partitioning and the two prunings;
\* self.num_tidl_subgraphs is read at line 1342
EnablePartition ==
    /\ pc = "partition"
    /\ IF "num_tidl_subgraphs" \in kwargs
       THEN /\ steps' = steps \o <<"partition", "prune">>
            /\ pc' = "tensors" /\ UNCHANGED <<ret, lib>>
       ELSE /\ steps' = steps \o <<"partition">>
            /\ Raise                                \* AttributeError
    /\ UNCHANGED <<import_success, importVars>>
    /\ EnvUnchanged

\* line 1345: input_node and input_data are bound by the loop of line 1325
EnableTensors ==
    /\ pc = "tensors"
    /\ IF input = 0
       THEN Raise /\ UNCHANGED steps                \* NameError
       ELSE /\ steps' = Append(steps, "calibration_graph")
            /\ pc' = "tools" /\ UNCHANGED <<ret, lib>>
    /\ UNCHANGED <<import_success, importVars>>
    /\ EnvUnchanged

\* lines 1348-1351 and 1363-1368
EnableTools ==
    /\ pc = "tools"
    /\ IF "tidl_tools_path" \notin kwargs
       THEN Raise                                   \* AttributeError
       ELSE IF tidl_tools_path = "None"
       THEN pc' = "done" /\ ret' = RetSkipped /\ UNCHANGED lib
       ELSE IF ToolsExist(calib_tool_exists, import_lib_exists)
       THEN pc' = "load" /\ UNCHANGED <<ret, lib>>
       ELSE pc' = "done" /\ ret' = RetSkipped /\ UNCHANGED lib
    /\ UNCHANGED <<steps, import_success, importVars>>
    /\ EnvUnchanged

\* line 1352
EnableLoad ==
    /\ pc = "load"
    /\ lib' = "open"
    /\ steps' = Append(steps, "load_library")
    /\ pc' = "construct"
    /\ UNCHANGED <<ret, import_success, importVars>>
    /\ EnvUnchanged

\* lines 1353-1354: self.artifacts_folder and self.data_layout are read
EnableConstruct ==
    /\ pc = "construct"
    /\ IF {"artifacts_folder", "data_layout"} \subseteq kwargs
       THEN pc' = "import" /\ ipc' = "scan" /\ UNCHANGED <<ret, lib>>
       ELSE Raise /\ UNCHANGED ipc                  \* AttributeError
    /\ UNCHANGED <<steps, import_success, tidl_subgraphs, sg, events,
                   out_data_q, output_fp, cfg_written>>
    /\ EnvUnchanged

\* ImportRelayIR returns v to line 1355
ImportReturn(v) ==
    /\ import_success' = v
    /\ ipc' = "returned"
    /\ pc' = "dlclose"
    /\ UNCHANGED <<ret, lib>>

\* an exception inside ImportRelayIR passes through enable, which has no handler
ImportRaise ==
    /\ ipc' = "raised"
    /\ Raise
    /\ UNCHANGED import_success

ImportGoto(p) ==
    /\ ipc' = p
    /\ UNCHANGED <<pc, ret, lib, import_success>>

Importing(p) == pc = "import" /\ ipc = p

\* one entry of the log: action what of subgraph s ended with res, which is
\* "ok", "fail" (the step answered False or 0) or "raise"
Event(s, what, res) == [sg |-> s, what |-> what, res |-> res]

\* how ImportRelayIR goes on after a step that ended with res
ImportAfter(res, next) ==
    IF res = "ok" THEN ImportGoto(next)
    ELSE IF res = "fail" THEN ImportReturn("False")
    ELSE ImportRaise

\* lines 1164-1175
ImportScan ==
    /\ Importing("scan")
    /\ \E n \in 0..MaxSubgraphs :
          /\ tidl_subgraphs' = n
          /\ IF n = 0 THEN ImportReturn("False") ELSE ImportGoto("input")
    /\ steps' = Append(steps, "import")
    /\ sg' = 0
    /\ UNCHANGED <<events, out_data_q, output_fp, cfg_written>>
    /\ EnvUnchanged

\* lines 1180-1193: obtain_subgraph_tensor returns a list, never None;
\* input_fp[0] of an empty list is an IndexError
ImportInput ==
    /\ Importing("input")
    /\ \E n \in 0..MaxTensors :
          LET res == IF n > 1 THEN "fail" ELSE IF n = 0 THEN "raise" ELSE "ok"
          IN /\ events' = Append(events, Event(sg, "input", res))
             /\ ImportAfter(res, "init")
    /\ UNCHANGED <<steps, tidl_subgraphs, sg, out_data_q, output_fp, cfg_written>>
    /\ EnvUnchanged

\* a step of the import whose callee ends in one of the given ways
ImportStep(p, what, next, outcomes) ==
    /\ Importing(p)
    /\ \E res \in outcomes :
          /\ events' = Append(events, Event(sg, what, res))
          /\ ImportAfter(res, next)
    /\ UNCHANGED <<steps, tidl_subgraphs, sg, out_data_q, output_fp, cfg_written>>
    /\ EnvUnchanged

\* lines 1196-1197: tidl_import_init answers False for a shape or layout it
\* does not support; int(round(input_scale*255)) at line 988 is an
\* OverflowError for the scale inf of an all-zero tensor
ImportInit == ImportStep("init", "init", "nodes", {"ok", "fail", "raise"})
\* lines 1201-1207: the handlers of multiply and nn.dense read .data of an
\* argument, an AttributeError unless it is a Constant
ImportNodes == ImportStep("nodes", "nodes", "tuples", {"ok", "fail", "raise"})
\* lines 1210-1216
ImportTuples == ImportStep("tuples", "tuples", "optimize", {"ok", "fail"})
\* lines 1219-1230
ImportOptimize == ImportStep("optimize", "optimize", "calibrate", {"ok", "fail"})

\* lines 1233-1236
ImportCalibrate ==
    /\ Importing("calibrate")
    /\ \E ok \in BOOLEAN, out \in ConsoleSamples, err \in {"", "stderr"} :
          LET r == SubgraphCalibration(ok, out, err)
              res == IF r.status = "raise" THEN "raise"
                     ELSE IF r.status = "False" THEN "fail" ELSE "ok"
          IN /\ events' = Append(events, Event(sg, "calibrate", res))
             /\ ImportAfter(res, "output")
             /\ out_data_q' = IF res = "ok" THEN r.outq ELSE out_data_q
    /\ UNCHANGED <<steps, tidl_subgraphs, sg, output_fp, cfg_written>>
    /\ EnvUnchanged

\* line 1245 without the comparison
OutputCountAny(n, q) == TRUE

\* line 1245: len(output_fp) == len(out_data_q)
OutputCountOk(n, q) == n = Len(q)

\* lines 1240-1246
ImportOutput ==
    /\ Importing("output")
    /\ \E n \in 0..MaxTensors :
          LET res == IF OutputCountOk(n, out_data_q) THEN "ok" ELSE "fail"
          IN /\ output_fp' = n
             /\ events' = Append(events, Event(sg, "output", res))
             /\ ImportAfter(res, "cfg")
    /\ UNCHANGED <<steps, tidl_subgraphs, sg, out_data_q, cfg_written>>
    /\ EnvUnchanged

\* lines 1247-1257 and the loop of line 1178: subgraph_cfg_gen is given one
\* sign per captured output tensor and one scale per calibrated scale
ImportCfg ==
    /\ Importing("cfg")
    /\ events' = Append(events, Event(sg, "cfg", "ok"))
    /\ cfg_written' = cfg_written \cup
          {[sg |-> sg, output_signed |-> output_fp,
            output_scale |-> Len(out_data_q)]}
    /\ IF sg + 1 < tidl_subgraphs
       THEN sg' = sg + 1 /\ ImportGoto("input")
       ELSE sg' = sg /\ ImportReturn("True")
    /\ UNCHANGED <<steps, tidl_subgraphs, out_data_q, output_fp>>
    /\ EnvUnchanged

\* line 1356
EnableClose ==
    /\ pc = "dlclose"
    /\ lib' = "closed"
    /\ pc' = "return"
    /\ UNCHANGED <<steps, ret, import_success, importVars>>
    /\ EnvUnchanged

\* lines 1357-1362
EnableReturn ==
    /\ pc = "return"
    /\ ret' = IF import_success = "True" THEN RetSuccess ELSE RetFailure
    /\ pc' = "done"
    /\ UNCHANGED <<steps, lib, import_success, importVars>>
    /\ EnvUnchanged

NextEnable ==
    \/ EnableEntry \/ EnablePartition \/ EnableTensors \/ EnableTools
    \/ EnableLoad \/ EnableConstruct
    \/ ImportScan \/ ImportInput \/ ImportInit \/ ImportNodes \/ ImportTuples
    \/ ImportOptimize \/ ImportCalibrate \/ ImportOutput \/ ImportCfg
    \/ EnableClose \/ EnableReturn

SpecEnable == InitEnable /\ [][NextEnable]_vars

(***************************************************************************)
(* Claims about TIDLCompiler.enable (checked under SpecEnable).            *)
(***************************************************************************)
Exited == pc \in {"done", "raised"}
\* ImportRelayIR failed: it returned False, or an exception left it
ImportFailed == import_success = "False" \/ ipc = "raised"
\* the tools check of lines 1348-1351 finds the tools absent
ToolsAbsent ==
    /\ "tidl_tools_path" \in kwargs
    /\ tidl_tools_path = "None" \/ ~calib_tool_exists \/ ~import_lib_exists

\* C1: the partitioned graph is returned with status 1 only when
\* ImportRelayIR returned True; whenever the import (with its extraction of
\* the boundary tensors and its calibration) fails, enable returns the
\* original graph with status -1; the partitioned graph is never returned
\* with status -1.
C1_FailureReturnsOriginal ==
    /\ ret = [graph |-> "mod", status |-> 1] => import_success = "True"
    /\ (Exited /\ ImportFailed) => ret = [graph |-> "mod_orig", status |-> -1]
    /\ ~(ret.graph = "mod" /\ ret.status = -1)

C4_LibraryReleasedOnExit ==
    (Exited /\ ipc \in {"returned", "raised"}) => lib = "closed"

(***************************************************************************)
(* Claims about ImportRelayIR (checked under SpecEnable).                  *)
(***************************************************************************)
\* the log of one subgraph imported without a failure, up to its config file
FullImport(s) ==
    <<Event(s, "input", "ok"), Event(s, "init", "ok"), Event(s, "nodes", "ok"),
      Event(s, "tuples", "ok"), Event(s, "optimize", "ok"),
      Event(s, "calibrate", "ok"), Event(s, "output", "ok"),
      Event(s, "cfg", "ok")>>
Failures == {i \in 1..Len(events) : events[i].res # "ok"}

\* C14: subgraphN.cfg is written only after that subgraph's init, node
\* imports, tuple imports, optimize call and calibration have all succeeded,
\* in this order, and with as many calibrated scales as captured output
\* tensors; a subgraph one of whose steps failed has no config file written.
C14_CfgOnlyAfterSuccess ==
    /\ \A c \in cfg_written :
          /\ \E k \in Len(FullImport(c.sg))..Len(events) :
                SubSeq(events, k - Len(FullImport(c.sg)) + 1, k) = FullImport(c.sg)
          /\ c.output_scale = c.output_signed
    /\ \A i \in Failures : \A c \in cfg_written : c.sg # events[i].sg
    /\ \A i \in 1..Len(events) :
          events[i].what = "cfg" => \E c \in cfg_written : c.sg = events[i].sg

C14_Witness ==
    /\ ipc = "returned" /\ import_success = "False" /\ tidl_subgraphs = 2
    /\ cfg_written = {[sg |-> 0, output_signed |-> 2, output_scale |-> 2]}
    /\ events[Len(events)] = Event(1, "calibrate", "fail")

\* C15: once a step (init, node import, tuple import, optimize, calibration,
\* output-count check) has failed for a subgraph, nothing more is done for
\* that or any later subgraph and ImportRelayIR returns False; the subgraphs
\* are processed one after another.
C15_FailureEndsImportWithFalse ==
    /\ \A i \in Failures :
          /\ i = Len(events)
          /\ ipc = "returned" /\ import_success = "False"
    /\ \A i, j \in 1..Len(events) : i < j => events[i].sg <= events[j].sg

\* C16: with no subgraph for TIDL offload in main ImportRelayIR returns
\* True; it returns False only when a step of an import has failed.
C16_NoSubgraphsReturnsTrue ==
    ipc = "returned" =>
        /\ tidl_subgraphs = 0 => import_success = "True"
        /\ import_success = "False" => Failures # {}

(***************************************************************************)
(* SpecPrune: the two pruning passes over a partitioned module.            *)
(*                                                                         *)
(* A name is the sequence of its "_"-separated parts, so that              *)
(* name.split('_') is the name itself.  A module is its table of global    *)
(* functions and main; main is a dataflow chain of sites, main[i] taking   *)
(* main[i-1] (the graph input for i = 1) as its first argument.  A site is *)
(* a call of a global function, an operator call, or the inlined body of a *)
(* removed function.  ExprMutator visits the chain from its root, the last *)
(* site, down to the graph input.                                          *)
(***************************************************************************)
NumStr == <<"0", "1", "2", "3", "4", "5", "6", "7", "8">>
\* str(n)
Str(n) == NumStr[n + 1]

Costs == {1, 2, 3}
ScenarioCosts == <<10, 5, 50, 1, 20>>

\* the kinds of site a module under test is built from
SiteOptions ==
    {[k |-> "tidl", mac |-> c] : c \in Costs}
    \cup {[k |-> x, mac |-> 2] : x \in {"tidl2", "tidlT", "tidl0", "dnnl", "plain"}}
    \cup {[k |-> x, mac |-> 0] : x \in {"op", "dup"}}

\* a 0-parameter subgraph takes no argument, so only the first site can be
\* one; "dup" is a second call site of the function the site before calls
WellFormedOptions(o) ==
    \A i \in 1..Len(o) :
       /\ o[i].k = "tidl0" => i = 1
       /\ o[i].k = "dup" => i > 1 /\ o[i-1].k \notin {"op", "tidl0"}

RECURSIVE FnIndex(_, _)
FnIndex(o, i) == IF o[i].k = "dup" THEN FnIndex(o, i - 1) ELSE i

CompilerOf(k) == IF k = "dnnl" THEN "dnnl" ELSE IF k = "plain" THEN "" ELSE "tidl"
PrefixOf(k) == IF k = "dnnl" THEN "dnnl" ELSE IF k = "plain" THEN "fn" ELSE "tidl"

\* the function PartitionGraph made for site i: <compiler>_<id>, its
\* parameters <compiler>_<id>_i<slot>; a plain function has parameter x
NameAt(o, i) == <<PrefixOf(o[i].k), Str(i - 1)>>
Param(nm, slot, isTuple) == [name |-> nm \o <<slot>>, tuple |-> isTuple]
FuncAt(o, i) ==
    LET nm == NameAt(o, i)
        ps == CASE o[i].k = "tidl2" -> <<Param(nm, "i0", FALSE), Param(nm, "i1", FALSE)>>
                [] o[i].k = "tidlT" -> <<Param(nm, "i0", TRUE)>>
                [] o[i].k = "tidl0" -> <<>>
                [] o[i].k = "plain" -> <<[name |-> <<"x">>, tuple |-> FALSE]>>
                [] OTHER -> <<Param(nm, "i0", FALSE)>>
    IN [compiler |-> CompilerOf(o[i].k), params |-> ps, mac |-> o[i].mac,
        body |-> [j \in 1..Len(ps) |-> ps[j].name], global_symbol |-> nm]

BuildModule(o) ==
    LET fs == {i \in 1..Len(o) : o[i].k \notin {"op", "dup"}}
        names == {NameAt(o, i) : i \in fs}
    IN [funcs |-> [nm \in names |-> FuncAt(o, CHOOSE i \in fs : NameAt(o, i) = nm)],
        main |-> [i \in 1..Len(o) |->
                     IF o[i].k = "op" THEN [kind |-> "op", fn |-> <<>>]
                     ELSE [kind |-> "call", fn |-> NameAt(o, FnIndex(o, i))]]]

OptionSeqs ==
    {o \in UNION {[1..n -> SiteOptions] : n \in 0..MaxSites} : WellFormedOptions(o)}
    \cup {[i \in 1..Len(ScenarioCosts) |-> [k |-> "tidl", mac |-> ScenarioCosts[i]]]}

\* lines 425 and 437: attrs present and attrs["Compiler"] == compiler
Tagged(m, compiler) == {nm \in DOMAIN m.funcs : m.funcs[nm].compiler = compiler}

\* line 427 without the tuple-type test
ArityViolationNoTuple(f) == Len(f.params) # 1

\* line 427
ArityViolation(f) == Len(f.params) # 1 \/ f.params[1].tuple

\* VarRenamer.visit_var, lines 374-378
FirstTwo(v) == SubSeq(v, 1, Min(2, Len(v)))
RenameVar(new_name, v) ==
    IF FirstTwo(v) # new_name THEN new_name \o <<v[3]>> ELSE v
\* v.split('_')[2] exists wherever line 376 evaluates it
Renamable(new_name, f) ==
    \A j \in 1..Len(f.body) + Len(f.params) :
       LET v == IF j <= Len(f.body) THEN f.body[j] ELSE f.params[j - Len(f.body)].name
       IN FirstTwo(v) = new_name \/ Len(v) >= 3

\* lines 412-413: VarRenamer over the function, then global_symbol
VarRenamer(new_name, f) ==
    [f EXCEPT !.params = [j \in 1..Len(f.params) |->
                             [f.params[j] EXCEPT !.name = RenameVar(new_name, @)]],
              !.body = [j \in 1..Len(f.body) |-> RenameVar(new_name, f.body[j])],
              !.global_symbol = new_name]

\* SubgraphRemover.visit_call at site i, lines 389-418; st is the mutator's
\* state: its counter, the new module's functions and the new main so far
RECURSIVE RemoverVisit(_, _, _, _)
RemoverVisit(m, remove, i, st) ==
    IF i = 0 THEN st
    ELSE
    LET site == m.main[i] IN
    IF site.kind = "call" /\ site.fn \in remove
    THEN \* lines 393-399: only the arguments paired with a parameter are visited
         LET st1 == IF Len(m.funcs[site.fn].params) = 0 THEN st
                    ELSE RemoverVisit(m, remove, i - 1, st)
         IN [st1 EXCEPT !.main[i] = [kind |-> "inl", fn |-> site.fn]]
    ELSE IF site.kind = "call"
    THEN \* lines 400-417: the counter is read and advanced before the arguments
         LET new_name == <<site.fn[1], Str(st.count)>>
             st0 == [st EXCEPT !.count = @ + 1]
             st1 == IF Len(m.funcs[site.fn].params) = 0 THEN st0
                    ELSE RemoverVisit(m, remove, i - 1, st0)
             f == m.funcs[site.fn]
         IN IF ~Renamable(new_name, f)
            THEN [st1 EXCEPT !.raised = TRUE]            \* IndexError, line 376
            ELSE [st1 EXCEPT !.funcs = (new_name :> VarRenamer(new_name, f)) @@ @,
                             !.main[i] = [kind |-> "call", fn |-> new_name]]
    ELSE \* line 418: any other call keeps its operator, its arguments are visited
         RemoverVisit(m, remove, i - 1, st)

\* lines 429-430 and 445-446: new_mod["main"] = SubgraphRemover(...).visit(main)
SubgraphRemover(remove, m) ==
    RemoverVisit(m, remove, Len(m.main),
                 [count |-> 0, funcs |-> <<>>, main |-> m.main, raised |-> FALSE])

\* lines 421-428
ArityRemoveSet(m, compiler) ==
    {nm \in Tagged(m, compiler) : ArityViolation(m.funcs[nm])}

Perms(S) == {p \in [1..Cardinality(S) -> S] : \A i, j \in DOMAIN p : i # j => p[i] # p[j]}

\* line 441 without the sort: the module's own order
UnsortedOrders(m, names) == Perms(names)

\* line 441: sorted() by MAC count; get_global_vars fixes no order among ties
SortedOrders(m, names) ==
    {p \in Perms(names) :
        \A i, j \in DOMAIN p : i < j => m.funcs[p[i]].mac <= m.funcs[p[j]].mac}

\* line 442: the length of subgraph_with_macs[:-K]
SliceLen(n, K) == IF K = 0 THEN 0 ELSE Max(n - K, 0)

\* lines 442-443
CostRemoveSet(order, K) == {order[i] : i \in 1..SliceLen(Len(order), K)}

InitPrune ==
    /\ \E o \in OptionSeqs : mod = BuildModule(o)
    /\ mod_in = EmptyModule
    /\ passes = <<>>
    /\ subgraphs_to_remove = {}
    /\ num_subgraphs_to_keep = 0
    /\ raised = FALSE
    /\ CalibIdle
    /\ EnableIdle
    /\ QuantIdle
    /\ GraphIdle
    /\ StageIdle /\ ConvIdle /\ PassIdle

\* one pruning pass: new_mod replaces the module unless the visit raised
RunRemover(remove) ==
    LET st == SubgraphRemover(remove, mod) IN
    /\ subgraphs_to_remove' = remove
    /\ mod_in' = mod
    /\ raised' = st.raised
    /\ mod' = IF st.raised THEN mod ELSE [funcs |-> st.funcs, main |-> st.main]

\* PruneSubgraphsWithMoreThanOneInput, lines 420-431
ArityPrune ==
    /\ passes = <<>> /\ ~raised
    /\ RunRemover(ArityRemoveSet(mod, "tidl"))
    /\ passes' = Append(passes, "arity")
    /\ UNCHANGED <<num_subgraphs_to_keep, calibVars, enableVars, importVars,
                   quantVars, graphVars,
                   stageVars, convVars, passVars>>

\* PruneSubgraphs, lines 433-447
CostPrune ==
    /\ passes \in {<<>>, <<"arity">>} /\ ~raised
    /\ \E K \in 0..MaxK, order \in SortedOrders(mod, Tagged(mod, "tidl")) :
          /\ num_subgraphs_to_keep' = K
          /\ RunRemover(CostRemoveSet(order, K))
    /\ passes' = Append(passes, "cost")
    /\ UNCHANGED <<calibVars, enableVars, importVars, quantVars, graphVars,
                   stageVars, convVars, passVars>>

NextPrune == ArityPrune \/ CostPrune
SpecPrune == InitPrune /\ [][NextPrune]_vars

(***************************************************************************)
(* Claims about the pruning passes (checked under SpecPrune).  The passes  *)
(* keep main's shape, so site i of the new main is site i of the old one.  *)
(***************************************************************************)
AfterPass(p) == passes # <<>> /\ passes[Len(passes)] = p /\ ~raised
Sites == 1..Len(mod_in.main)
\* the function site i called in the module the last pass was given
InFunc(i) == mod_in.funcs[mod_in.main[i].fn]
InTagged(i) == mod_in.main[i].kind = "call" /\ InFunc(i).compiler = "tidl"
InUntagged(i) == mod_in.main[i].kind = "call" /\ InFunc(i).compiler # "tidl"
\* the last pass inlined the call at site i / copied its function
RemovedSite(i) == mod_in.main[i].kind = "call" /\ mod.main[i].kind = "inl"
KeptSite(i) == mod_in.main[i].kind = "call" /\ mod.main[i].kind = "call"
VarsOf(f) == {f.params[j].name : j \in 1..Len(f.params)}
                \cup {f.body[j] : j \in 1..Len(f.body)}
NumberedFromZero(T) == T = {<<"tidl", Str(j)>> : j \in 0..(Cardinality(T) - 1)}

\* C5: for every K >= 0 the module PruneSubgraphs returns holds exactly
\* min(K, n) tagged subgraphs, n being the number the given module held.
C5_PrunedCountIsMin ==
    AfterPass("cost") =>
        Cardinality(Tagged(mod, "tidl"))
            = Min(num_subgraphs_to_keep, Cardinality(Tagged(mod_in, "tidl")))

\* C6: PruneSubgraphs removes only tagged subgraphs, and none that costs
\* more than one it keeps: mac(r) <= mac(k) for every inlined r and every
\* kept tagged k, the kept functions carrying their MAC count over; costs
\* [10,5,50,1,20] with K = 3 keep those of cost 10, 50, 20 and inline those
\* of cost 5 and 1.
C6_KeepsHighestCost ==
    AfterPass("cost") =>
        /\ \A i \in Sites : RemovedSite(i) => InTagged(i)
        /\ \A i, j \in Sites :
              (RemovedSite(i) /\ KeptSite(j) /\ InTagged(j))
                  => InFunc(i).mac <= InFunc(j).mac
        /\ \A j \in Sites :
              KeptSite(j) => mod.funcs[mod.main[j].fn].mac = InFunc(j).mac
        /\ ( /\ Len(mod_in.main) = Len(ScenarioCosts)
             /\ \A i \in Sites : InTagged(i) /\ InFunc(i).mac = ScenarioCosts[i]
             /\ num_subgraphs_to_keep = 3 )
           => /\ {i \in Sites : KeptSite(i)} = {1, 3, 5}
              /\ {i \in Sites : RemovedSite(i)} = {2, 4}

C6_Witness ==
    /\ AfterPass("cost") /\ num_subgraphs_to_keep = 3
    /\ Len(mod_in.main) = Len(ScenarioCosts)
    /\ \A i \in Sites : InTagged(i) /\ InFunc(i).mac = ScenarioCosts[i]
    /\ {i \in Sites : RemovedSite(i)} = {2, 4}
    /\ DOMAIN mod.funcs = {<<"tidl", "0">>, <<"tidl", "1">>, <<"tidl", "2">>}

\* C7: after PruneSubgraphsWithMoreThanOneInput, and after the PruneSubgraphs
\* that follows it, every tagged subgraph of the module has exactly one
\* parameter, not of tuple type; every call of a tagged subgraph that broke
\* this is inlined, and the new module holds only functions copied at a
\* call site of a function that did not break it.
C7_SurvivorsHaveOneTensorParam ==
    (passes \in {<<"arity">>, <<"arity", "cost">>} /\ ~raised) =>
        /\ \A nm \in Tagged(mod, "tidl") :
              /\ Len(mod.funcs[nm].params) = 1
              /\ ~mod.funcs[nm].params[1].tuple
        /\ passes = <<"arity">> =>
              /\ \A i \in Sites :
                    (InTagged(i) /\ (Len(InFunc(i).params) # 1
                                     \/ InFunc(i).params[1].tuple))
                        => mod.main[i].kind = "inl"
              /\ \A nm \in DOMAIN mod.funcs :
                    \E i \in Sites :
                       /\ mod.main[i] = [kind |-> "call", fn |-> nm]
                       /\ mod_in.main[i].kind = "call"
                       /\ InTagged(i) =>
                             (Len(InFunc(i).params) = 1 /\ ~InFunc(i).params[1].tuple)

C7_Witness ==
    /\ passes = <<"arity">> /\ ~raised
    /\ \E i, j \in Sites :
          /\ InTagged(i) /\ Len(InFunc(i).params) = 1 /\ InFunc(i).params[1].tuple
          /\ mod.main[i].kind = "inl"
          /\ InTagged(j) /\ mod.main[j].kind = "call"
    /\ Tagged(mod, "tidl") # {}

\* C8: after a pruning pass with m surviving tagged subgraphs their names are
\* exactly tidl_0 .. tidl_(m-1), and every variable inside survivor tidl_j is
\* named tidl_j_<slot suffix>.
C8_SurvivorsNumberedFromZero ==
    (passes # <<>> /\ ~raised) =>
        /\ NumberedFromZero(Tagged(mod, "tidl"))
        /\ \A nm \in Tagged(mod, "tidl") :
              \A v \in VarsOf(mod.funcs[nm]) : Len(v) = 3 /\ FirstTwo(v) = nm

\* C9: a pruning pass copies every function called from main that does not
\* carry the tidl tag into the new module under its own name, with its own
\* parameter names and body, and it takes no ID of the renumbering: the
\* tagged survivors are still numbered from 0 without a gap.
C9_UntaggedCopiedUnchanged ==
    passes # <<>> =>
        /\ ~raised
        /\ \A i \in Sites :
              InUntagged(i) =>
                 /\ mod.main[i] = mod_in.main[i]
                 /\ mod_in.main[i].fn \in DOMAIN mod.funcs
                 /\ mod.funcs[mod_in.main[i].fn] = InFunc(i)
        /\ NumberedFromZero(Tagged(mod, "tidl"))

(***************************************************************************)
(* SpecQuant: tensor_quant_flatten applied to a captured tensor.           *)
(*                                                                         *)
(* A tensor is its shape without the batch axis and, per batch, its        *)
(* elements in row-major order.  The float values are whole numbers, and   *)
(* the arithmetic is exact: a scale is the fraction num/den, with den = 0  *)
(* for the inf that 255.0/0.0 gives over numpy scalars; a code is a number *)
(* or the nan that 0*inf gives.                                            *)
(***************************************************************************)
MaxVal == 6    \* tensor values lie in -MaxVal..MaxVal
MaxLen == 2    \* elements of a rank-1 batch

Abs(a) == IF a < 0 THEN -a ELSE a
RECURSIVE SeqMin(_)
SeqMin(x) == IF Len(x) = 1 THEN x[1] ELSE Min(x[1], SeqMin(Tail(x)))
RECURSIVE SeqMax(_)
SeqMax(x) == IF Len(x) = 1 THEN x[1] ELSE Max(x[1], SeqMax(Tail(x)))

\* line 199: input_tensor[0,:]
Batch0(t) == t.batches[1]

\* lines 201-202: transpose(2,0,1) of a rank-3 batch in NHWC, so that
\* element [c][h][w] of the result is element [h][w][c] of the batch
ToCHW(t, layout) ==
    IF layout = "NHWC" /\ Len(t.shape) = 3
    THEN LET H == t.shape[1]
             W == t.shape[2]
             C == t.shape[3]
         IN [k \in 1..(H * W * C) |->
                LET c == (k - 1) \div (H * W)
                    h == ((k - 1) % (H * W)) \div W
                    w == (k - 1) % W
                IN Batch0(t)[(h * W + w) * C + c + 1]]
    ELSE Batch0(t)

Num(v) == [nan |-> FALSE, v |-> v]
NaN    == [nan |-> TRUE,  v |-> 0]

\* line 218: np.rint of num/den, den > 0: the nearest integer, halves to even
Rint(num, den) ==
    LET f == num \div den
        r == num - f * den
    IN IF 2 * r < den THEN f
       ELSE IF 2 * r > den THEN f + 1
       ELSE IF f % 2 = 0 THEN f ELSE f + 1

\* line 219: np.clip
Clip(z, lo, hi) == IF z < lo THEN lo ELSE IF z > hi THEN hi ELSE z

\* lines 204-215: sign, scale and the code range
QuantSign(x) == IF SeqMin(x) >= 0 THEN 0 ELSE 1
QuantScale(x) ==
    IF SeqMin(x) >= 0
    THEN [num |-> 255, den |-> SeqMax(x)]
    ELSE [num |-> 128, den |-> Max(Abs(SeqMin(x)), SeqMax(x))]
QuantMin(x) == IF SeqMin(x) >= 0 THEN 0 ELSE -128
QuantMax(x) == IF SeqMin(x) >= 0 THEN 255 ELSE 127

\* lines 217-219 for one element: with scale inf the product 0*inf is nan,
\* which rint and clip hand on
QuantCode(v, scale, lo, hi) ==
    IF scale.den = 0 THEN NaN
    ELSE Num(Clip(Rint(v * scale.num, scale.den), lo, hi))

\* lines 189-222
TensorQuantFlatten(t, layout) ==
    LET x == ToCHW(t, layout)
        scale == QuantScale(x)
    IN [output |-> [k \in 1..Len(x) |->
                       QuantCode(x[k], scale, QuantMin(x), QuantMax(x))],
        scale |-> scale,
        sign |-> QuantSign(x)]

Vals == (-MaxVal)..MaxVal
\* batches of rank 1, and three batches of shape (2,1,2)
Rank1Batches == UNION {[1..n -> Vals] : n \in 1..MaxLen}
Rank3Batches == {<<1, 2, 3, 4>>, <<-2, 4, 0, 1>>, <<0, 0, 0, 0>>}
\* a second batch, which line 199 drops
OtherBatch(b) == [k \in 1..Len(b) |-> -MaxVal]
Tensors ==
    {[shape |-> <<Len(bs[1])>>, batches |-> bs] :
        bs \in UNION {{<<b>>, <<b, OtherBatch(b)>>} : b \in Rank1Batches}}
    \cup {[shape |-> <<2, 1, 2>>, batches |-> <<b>>] : b \in Rank3Batches}

InitQuant ==
    /\ input_tensor \in Tensors
    /\ data_layout \in {"NCHW", "NHWC"}
    /\ qpc = "call"
    /\ qret = NoQuant
    /\ CalibIdle
    /\ EnableIdle
    /\ PruneIdle
    /\ GraphIdle
    /\ StageIdle /\ ConvIdle /\ PassIdle

\* tensor_quant_flatten, lines 189-222
QuantFlatten ==
    /\ qpc = "call"
    /\ qret' = TensorQuantFlatten(input_tensor, data_layout)
    /\ qpc' = "done"
    /\ UNCHANGED <<input_tensor, data_layout, calibVars, enableVars,
                   importVars, pruneVars, graphVars,
                   stageVars, convVars, passVars>>

NextQuant == QuantFlatten
SpecQuant == InitQuant /\ [][NextQuant]_vars

(***************************************************************************)
(* Claims about tensor_quant_flatten (checked under SpecQuant).            *)
(***************************************************************************)
\* the values the codes are made from, in the order of the output
QuantIn == ToCHW(input_tensor, data_layout)
\* the scale is the fraction a/b
ScaleIs(a, b) == b # 0 /\ qret.scale.num * b = a * qret.scale.den
\* code c is a nearest integer of v*scale, clipped to lo..hi
NearestClipped(c, v, lo, hi) ==
    /\ ~c.nan
    /\ qret.scale.den > 0
    /\ \E z \in (-256 * MaxVal)..(256 * MaxVal) :
          /\ 2 * Abs(z * qret.scale.den - v * qret.scale.num) <= qret.scale.den
          /\ c.v = Clip(z, lo, hi)
CodesIn(lo, hi) ==
    \A k \in 1..Len(qret.output) :
       ~qret.output[k].nan /\ qret.output[k].v \in lo..hi

\* C12: with all values of batch 0 >= 0 the result has sign 0, every code in
\* [0,255] and scale 255/max(x); otherwise sign 1, every code in [-128,127]
\* and scale 128/max(|min|,|max|); each code is the round-to-nearest of
\* value*scale clipped to the range; [-2.0, 4.0] gives scale 32 and codes
\* [-64, 127].
C12_SignScaleCodes ==
    qpc = "done" =>
        /\ Len(qret.output) = Len(QuantIn)
        /\ IF \A k \in 1..Len(QuantIn) : QuantIn[k] >= 0
           THEN /\ qret.sign = 0
                /\ CodesIn(0, 255)
                /\ ScaleIs(255, SeqMax(QuantIn))
           ELSE /\ qret.sign = 1
                /\ CodesIn(-128, 127)
                /\ ScaleIs(128, Max(Abs(SeqMin(QuantIn)), Abs(SeqMax(QuantIn))))
        /\ \A k \in 1..Len(QuantIn) :
              NearestClipped(qret.output[k], QuantIn[k],
                             IF qret.sign = 0 THEN 0 ELSE -128,
                             IF qret.sign = 0 THEN 255 ELSE 127)
        /\ Batch0(input_tensor) = <<-2, 4>> =>
              /\ ScaleIs(32, 1)
              /\ qret.output = <<Num(-64), Num(127)>>

\* the scaled value of element k was cut to the code range by np.clip
WasClipped(k) ==
    /\ qret.scale.den > 0
    /\ LET z == Rint(QuantIn[k] * qret.scale.num, qret.scale.den)
       IN z < QuantMin(QuantIn) \/ z > QuantMax(QuantIn)

\* C13: for every value x whose scaled value was not clipped, code/scale
\* differs from x by at most one quantization step 1/scale.
C13_RoundTripWithinOneStep ==
    qpc = "done" =>
        \A k \in 1..Len(QuantIn) :
           ~WasClipped(k) =>
              /\ ~qret.output[k].nan
              /\ qret.scale.den > 0
              /\ Abs(qret.output[k].v * qret.scale.den
                        - QuantIn[k] * qret.scale.num) <= qret.scale.den

\* C30: for every captured input tensor, also one whose batch 0 is all
\* zero, tensor_quant_flatten returns a finite, strictly positive scale.
C30_ScaleFinitePositive ==
    qpc = "done" => qret.scale.den > 0 /\ qret.scale.num > 0

(***************************************************************************)
(* SpecGraph: the import of one subgraph function, as ImportRelayIR does   *)
(* it: post_order_visit with traverse_expr builds the Node Index Map, then *)
(* every Call node goes through tidl_import_node and every Tuple node      *)
(* through tidl_import_tuple_node, in the order of the map.                *)
(*                                                                         *)
(* A graph is the sequence of its nodes, a node's identity being its       *)
(* position; args holds a Call's arguments, a Tuple's fields, a            *)
(* TupleGetItem's tuple_value, and a Function's parameters followed by its *)
(* body.  The last node is the Function.  Operator nodes are shared by     *)
(* name and identified by negative numbers.  A variable's name is the      *)
(* sequence of its "_"-separated parts.                                    *)
(***************************************************************************)
MaxNodes == 3   \* nodes of a generated function body

\* line 1101
MAX_NUM_OUTPUTS_PER_DATA_LAYER == 16

\* the operator names of lines 1018-1076
SupportedOps ==
    <<"nn.conv2d", "nn.pad", "add", "nn.bias_add", "clip", "nn.relu",
      "nn.batch_norm", "nn.avg_pool2d", "squeeze", "reshape", "nn.softmax",
      "concatenate", "nn.max_pool2d", "nn.dropout", "nn.global_avg_pool2d",
      "nn.batch_flatten", "multiply", "nn.dense">>
\* operators of Relay the dispatch does not know
OtherOps == <<"exp", "nn.conv2d_transpose">>
OpNames == SupportedOps \o OtherOps

Range(f) == {f[x] : x \in DOMAIN f}
OpNode(op) == -(CHOOSE k \in 1..Len(OpNames) : OpNames[k] = op)
\* isinstance(node, tvm.ir.Op)
IsOp(node) == node < 0

Node(kind, op, args, name) == [kind |-> kind, op |-> op, args |-> args, name |-> name]
VarNode(name)      == Node("Var", "", <<>>, name)
ConstantNode       == Node("Constant", "", <<>>, <<>>)
CallNode(op, args) == Node("Call", op, args, <<>>)
TupleNode(fields)  == Node("Tuple", "", fields, <<>>)
TupleGetItemNode(tuple_value) == Node("TupleGetItem", "", <<tuple_value>>, <<>>)
FunctionNode(params, body)    == Node("Function", "", Append(params, body), <<>>)

\* line 82: input_prefix in name_hint, and "_i" in name_hint
NameContains(name, part) == \E j \in 1..Len(name) : name[j] = part
NameContainsUnderscoreI(name) == \E j \in 2..Len(name) : name[j] \in {"i0", "i1"}

\* line 82 with the first test only
IsBoundaryVarPrefixOnly(name, input_prefix) == NameContains(name, input_prefix)

\* line 82
IsBoundaryVar(name, input_prefix) ==
    NameContains(name, input_prefix) /\ NameContainsUnderscoreI(name)

\* traverse_expr with the membership test of line 40 left out
TraverseExprNoGuard(node, d) ==
    IF IsOp(node) THEN d
    ELSE [x \in DOMAIN d \cup {node} |->
             IF x = node THEN Cardinality(DOMAIN d) ELSE d[x]]

\* traverse_expr, lines 39-44: the dictionary after the call
TraverseExpr(node, d) ==
    IF node \in DOMAIN d THEN d
    ELSE IF IsOp(node) THEN d
    ELSE [x \in DOMAIN d \cup {node} |->
             IF x = node THEN Cardinality(DOMAIN d) ELSE d[x]]

\* the members of seq in the order of their first occurrence
FirstOccurrences(seq) ==
    LET firsts == {j \in 1..Len(seq) : \A i \in 1..(j - 1) : seq[i] # seq[j]}
    IN [k \in 1..Cardinality(firsts) |->
           seq[CHOOSE j \in firsts : Cardinality({i \in firsts : i < j}) = k - 1]]

\* relay.analysis.post_order_visit, lines 1166 and 1202: the nodes in the
\* order the callback gets them, each once, a Call's operator before its
\* arguments and every child before its parent; a child that occurs again
\* among the arguments has been visited by then
RECURSIVE Visit(_, _, _)
RECURSIVE VisitAll(_, _, _)
Visit(g, node, acc) ==
    IF node \in Range(acc) THEN acc
    ELSE IF IsOp(node) THEN Append(acc, node)
    ELSE LET children == IF g[node].kind = "Call"
                         THEN <<OpNode(g[node].op)>> \o g[node].args
                         ELSE g[node].args
         IN Append(VisitAll(g, FirstOccurrences(children), acc), node)
VisitAll(g, nodes, acc) ==
    IF nodes = <<>> THEN acc
    ELSE VisitAll(g, Tail(nodes), Visit(g, Head(nodes), acc))
PostOrder(g) == Visit(g, Len(g), <<>>)

\* the key of dictionary d that was inserted as number k (counted from 0)
KeyAt(d, k) == CHOOSE node \in DOMAIN d : d[node] = k
\* piece, count times over
Repeat(piece, count) ==
    [j \in 1..(Len(piece) * count) |-> piece[((j - 1) % Len(piece)) + 1]]
Occurrences(x, seq) == Cardinality({j \in 1..Len(seq) : seq[j] = x})

\* line 78 with the projection's own index
ProjectionOwnIndex(g, d, node) == d[node]

\* line 78: all_nodes[node.tuple_value]
ProjectionIndex(g, d, node) == d[g[node].args[1]]

\* find_in_nodes, lines 46-87; InNodesOf is its loop over in_nodes
RECURSIVE FindInNodes(_, _, _, _)
RECURSIVE InNodesOf(_, _, _, _)
FindInNodes(g, d, this_node, input_prefix) ==
    InNodesOf(g, d, g[this_node].args, input_prefix)
InNodesOf(g, d, in_nodes, input_prefix) ==
    IF in_nodes = <<>> THEN <<>>
    ELSE IF Len(in_nodes) = 1
    THEN LET node == in_nodes[1] IN
         CASE g[node].kind = "Call" -> <<d[node]>>
           [] g[node].kind = "TupleGetItem" -> <<ProjectionIndex(g, d, node)>>
           [] g[node].kind = "Tuple" -> FindInNodes(g, d, node, input_prefix)
           [] g[node].kind = "Var" ->
                 IF IsBoundaryVar(g[node].name, input_prefix) THEN <<-1>> ELSE <<>>
           [] OTHER -> <<>>
    ELSE \* the list grows from left to right: the left half, then the right
         LET half == Len(in_nodes) \div 2
         IN InNodesOf(g, d, SubSeq(in_nodes, 1, half), input_prefix)
               \o InNodesOf(g, d, SubSeq(in_nodes, half + 1, Len(in_nodes)),
                            input_prefix)

\* find_out_nodes, lines 90-125; OutNodesFrom is its loop over
\* all_nodes.items() from entry k on
RECURSIVE FindOutNodes(_, _, _)
RECURSIVE OutNodesFrom(_, _, _, _)
FindOutNodes(g, d, this_node) == OutNodesFrom(g, d, this_node, 0)
OutNodesFrom(g, d, this_node, k) ==
    IF k >= Cardinality(DOMAIN d) THEN <<>>
    ELSE LET node == KeyAt(d, k)
             found ==
                CASE g[node].kind = "Call" ->
                        IF this_node \in Range(g[node].args) THEN <<k>> ELSE <<>>
                  [] g[node].kind = "TupleGetItem" ->
                        IF this_node = g[node].args[1]
                        THEN FindOutNodes(g, d, node) ELSE <<>>
                  [] g[node].kind = "Tuple" ->
                        IF this_node \in Range(g[node].args)
                        THEN LET tuple_node_outs == FindOutNodes(g, d, node)
                             IN Repeat(IF tuple_node_outs = <<>> THEN <<d[node]>>
                                       ELSE tuple_node_outs,
                                       Occurrences(this_node, g[node].args))
                        ELSE <<>>
                  [] OTHER -> <<>>
         IN found \o OutNodesFrom(g, d, this_node, k + 1)

\* find_in_out_nodes, lines 127-172: the Adjacency Record
InOutNodes(this, ins, outs) == [this_node |-> this, in_nodes |-> ins, out_nodes |-> outs]
FindInOutNodes(g, d, this_node, input_prefix) ==
    InOutNodes(d[this_node], FindInNodes(g, d, this_node, input_prefix),
               FindOutNodes(g, d, this_node))

\* one call into the import library, made while node number by was imported
NoRecord == InOutNodes(-2, <<>>, <<>>)
LibCall(by, fn, tag, n, rec) == [by |-> by, fn |-> fn, tag |-> tag, n |-> n, rec |-> rec]
Export(by, fn, tag, n) == LibCall(by, fn, tag, n, NoRecord)
Link(by, rec) == LibCall(by, "tidlImportLinkNodes", "", 0, rec)

\* what a handler did: the export it made and the value it returned
Handled(calls, status) == [calls |-> calls, status |-> status]
IsKind(g, args, j, kind) == j <= Len(args) /\ g[args[j]].kind = kind

\* line 1078 with every operator name taken as known
IsSupportedAny(op) == TRUE

\* lines 1018-1078: the operator name has a branch of its own
IsSupported(op) == op \in Range(SupportedOps)

\* lines 1017-1080 of tidl_import_node with the handlers of lines 650-948;
\* attrs_ok says that the attributes the handler tests (kernel layout and
\* element types) are supported ones
Handler(g, d, this_node, attrs_ok) ==
    LET op == g[this_node].op
        args == g[this_node].args
        by == d[this_node]
        one(fn, tag, n, status) == Handled(<<Export(by, fn, tag, n)>>, status)
        BiasAdd == \* lines 784-825
            IF Len(args) < 2 THEN Handled(<<>>, "raise")
            ELSE IF ~IsKind(g, args, 2, "Constant") THEN Handled(<<>>, "False")
            ELSE IF ~attrs_ok THEN Handled(<<>>, "False")
            ELSE one("tidlImportBiasAdd", "", 0, "None")
    IN IF ~IsSupported(op) THEN Handled(<<>>, "False")
       ELSE CASE op = "nn.conv2d" -> \* lines 650-742
              IF Len(args) < 2 THEN Handled(<<>>, "raise")
              ELSE IF g[args[2]].kind \notin {"Constant", "Var"}
              THEN Handled(<<>>, "raise")
              ELSE IF ~attrs_ok THEN Handled(<<>>, "False")
              ELSE one("tidlImportConv2d", "", 0, "True")
         [] op = "nn.pad" -> one("tidlImportPad", "", 0, "None")
         [] op = "add" ->
              IF Len(args) < 2 THEN Handled(<<>>, "raise")
              ELSE IF IsKind(g, args, 2, "Constant") THEN BiasAdd
              ELSE one("tidlImportAdd", "", 0, "None")
         [] op = "nn.bias_add" -> BiasAdd
         [] op = "clip" -> one("tidlImportRelu", "Relu6", 0, "True")
         [] op = "nn.relu" -> one("tidlImportRelu", "Relu", 0, "True")
         [] op = "nn.batch_norm" -> \* lines 827-878
              IF Len(args) < 2 THEN Handled(<<>>, "raise")
              ELSE IF ~attrs_ok THEN Handled(<<>>, "False")
              ELSE IF \E j \in 2..5 :
                         ~IsKind(g, args, j, g[args[2]].kind)
                         \/ g[args[2]].kind \notin {"Constant", "Var"}
              THEN Handled(<<>>, "raise")
              ELSE one("tidlImportBatchNorm", "", 0, "True")
         [] op \in {"nn.avg_pool2d", "nn.global_avg_pool2d"} ->
              one("tidlImportPooling", "avg_pool2d", 0, "None")
         [] op = "nn.max_pool2d" -> one("tidlImportPooling", "max_pool2d", 0, "None")
         [] op = "squeeze" -> one("tidlImportSqueeze", "", 0, "True")
         [] op = "reshape" -> one("tidlImportReshape", "", 0, "True")
         [] op = "nn.softmax" -> one("tidlImportSoftmax", "", 0, "True")
         [] op = "concatenate" ->
              one("tidlImportConcat", "", Len(FindInNodes(g, d, this_node, "tidl")), "None")
         [] op = "nn.dropout" -> one("tidlImportDropOut", "", 0, "True")
         [] op = "nn.batch_flatten" -> one("tidlImportBatchFlatten", "", 0, "True")
         [] op = "multiply" -> \* lines 941-948: args[0].data
              IF ~IsKind(g, args, 1, "Constant") THEN Handled(<<>>, "raise")
              ELSE one("tidlImportMul", "", 0, "True")
         [] op = "nn.dense" -> \* lines 931-939: args[1].data
              IF ~IsKind(g, args, 2, "Constant") THEN Handled(<<>>, "raise")
              ELSE one("tidlImportDense", "", 0, "True")
         [] OTHER -> Handled(<<>>, "True")

\* what an import of one node did: its library calls, its return value, how
\* the handler ended and which of its linking calls reported failure
Imported(node, calls, result, handler, linkfail) ==
    [calls |-> calls,
     gret |-> [node |-> node, ret |-> result, handler |-> handler,
               linkfail |-> linkfail]]

\* tidl_import_node, lines 1000-1095; link_ok is the linking call's answer
TidlImportNode(g, d, this_node, attrs_ok, link_ok) ==
    LET h == Handler(g, d, this_node, attrs_ok) IN
    IF h.status = "raise" THEN Imported(this_node, h.calls, "raise", "raise", 0)
    ELSE IF h.status = "False"
    THEN Imported(this_node, h.calls, "False",
                  IF IsSupported(g[this_node].op) THEN "fail" ELSE "unsupported", 0)
    ELSE LET calls == Append(h.calls, Link(d[this_node],
                                           FindInOutNodes(g, d, this_node, "tidl")))
         IN IF link_ok THEN Imported(this_node, calls, "True", "ok", 0)
            ELSE Imported(this_node, calls, "False", "ok", 1)

\* lines 1109-1114 with a layer one short of the maximum
NodesForThisDataLayerShort(remaining) ==
    IF remaining < MAX_NUM_OUTPUTS_PER_DATA_LAYER THEN remaining
    ELSE MAX_NUM_OUTPUTS_PER_DATA_LAYER - 1

\* lines 1109-1114: nodes_for_this_data_layer
NodesForThisDataLayer(remaining) ==
    IF remaining < MAX_NUM_OUTPUTS_PER_DATA_LAYER THEN remaining
    ELSE MAX_NUM_OUTPUTS_PER_DATA_LAYER

\* the loop of lines 1108-1140: the calls made from imported_nodes on, the
\* link_fail-th linking call from here (0: none) answering 0
RECURSIVE OutDataLayers(_, _, _, _, _)
OutDataLayers(by, in_nodes, imported_nodes, new_node_ind, link_fail) ==
    IF imported_nodes >= Len(in_nodes) THEN <<>>
    ELSE LET nodes_for_this_data_layer ==
                 NodesForThisDataLayer(Len(in_nodes) - imported_nodes)
             this_is_the_last_one ==
                 Len(in_nodes) - imported_nodes < MAX_NUM_OUTPUTS_PER_DATA_LAYER
             in_nodes_this_layer ==
                 SubSeq(in_nodes, imported_nodes + 1,
                        imported_nodes + nodes_for_this_data_layer)
             calls == <<Export(by, "tidlImportOutData", "", nodes_for_this_data_layer),
                        Link(by, InOutNodes(new_node_ind, in_nodes_this_layer, <<>>))>>
         IN IF link_fail = 1 \/ this_is_the_last_one THEN calls
            ELSE calls \o OutDataLayers(by, in_nodes,
                                        imported_nodes + nodes_for_this_data_layer,
                                        new_node_ind + 1,
                                        IF link_fail = 0 THEN 0 ELSE link_fail - 1)

\* tidl_import_tuple_node, lines 1097-1144
TidlImportTupleNode(g, d, node, link_fail) ==
    IF FindOutNodes(g, d, node) = <<>>
    THEN LET calls == OutDataLayers(d[node], FindInNodes(g, d, node, "tidl"), 0,
                                    Cardinality(DOMAIN d) + 1, link_fail)
             links == Len(calls) \div 2
         IN IF link_fail \in 1..links
            THEN Imported(node, calls, "False", "ok", link_fail)
            ELSE Imported(node, calls, "True", "ok", 0)
    ELSE Imported(node, <<>>, "True", "ok", 0)

\* the graphs under test: every function whose body has at most MaxNodes
\* nodes, built from boundary and other variables, constants, unary and
\* binary calls, tuples of up to two fields and projections, ...
VarNames == {<<"tidl", "0", "i0">>, <<"tidl", "0", "w">>, <<"x", "i0">>}
NodeOptions(i) ==
    {VarNode(name) : name \in VarNames}
    \cup {ConstantNode, TupleNode(<<>>)}
    \cup {CallNode("nn.relu", <<a>>) : a \in 1..(i - 1)}
    \cup {CallNode("add", <<a, b>>) : a, b \in 1..(i - 1)}
    \cup {TupleNode(<<a>>) : a \in 1..(i - 1)}
    \cup {TupleNode(<<a, b>>) : a, b \in 1..(i - 1)}
    \cup {TupleGetItemNode(a) : a \in 1..(i - 1)}
RECURSIVE Bodies(_)
Bodies(n) ==
    IF n = 0 THEN {<<>>}
    ELSE {Append(b, o) : b \in Bodies(n - 1), o \in NodeOptions(n)}
\* every node but the last is an argument of a later one
Connected(b) ==
    \A i \in 1..(Len(b) - 1) : \E j \in (i + 1)..Len(b) : i \in Range(b[j].args)
RECURSIVE VarsOfBody(_, _)
VarsOfBody(b, i) ==
    IF i > Len(b) THEN <<>>
    ELSE (IF b[i].kind = "Var" THEN <<i>> ELSE <<>>) \o VarsOfBody(b, i + 1)
\* the function of a body: its parameters are the body's variables
FunctionOf(b) == Append(b, FunctionNode(VarsOfBody(b, 1), Len(b)))
GeneratedGraphs ==
    {FunctionOf(b) : b \in {c \in UNION {Bodies(n) : n \in 1..MaxNodes} : Connected(c)}}

\* ... one call of every operator name, on a tensor and a constant in
\* either order, and a batch_norm with its four constant parameters, ...
Boundary == VarNode(<<"tidl", "0", "i0">>)
OperatorGraphs ==
    {FunctionOf(<<Boundary, ConstantNode, CallNode(op, <<1, 2>>)>>) :
        op \in Range(OpNames)}
    \cup {FunctionOf(<<Boundary, ConstantNode, CallNode(op, <<2, 1>>)>>) :
            op \in Range(OpNames)}
    \cup {FunctionOf(<<Boundary, ConstantNode,
                       CallNode("nn.batch_norm", <<1, 2, 2, 2, 2>>),
                       TupleGetItemNode(3)>>)}

\* ... and functions returning a tuple of n outputs of two calls
SinkSizes == {15, 16, 17, 20, 32}
SinkGraphs ==
    {FunctionOf(<<Boundary, CallNode("nn.relu", <<1>>), CallNode("nn.relu", <<2>>),
                  TupleNode([j \in 1..n |-> 2 + (j % 2)])>>) : n \in SinkSizes}

\* ... and concatenate((relu, (projection, constant), input), projection)
NestedGraphs ==
    {FunctionOf(<<Boundary, ConstantNode, CallNode("nn.relu", <<1>>),
                  TupleGetItemNode(3), TupleNode(<<4, 2>>), TupleNode(<<3, 5, 1>>),
                  CallNode("concatenate", <<6, 4>>)>>),
     \* relu(projection of the Tuple literal (relu, input))
     FunctionOf(<<Boundary, CallNode("nn.relu", <<1>>), TupleNode(<<2, 1>>),
                  TupleGetItemNode(3), CallNode("nn.relu", <<4>>)>>)}

Graphs == GeneratedGraphs \cup OperatorGraphs \cup SinkGraphs \cup NestedGraphs

InitGraph ==
    /\ graph \in Graphs
    /\ node_dict = <<>>
    /\ visits = <<>>
    /\ gpc = "index"
    /\ cursor = 0
    /\ lib_calls = <<>>
    /\ gret = NoImport
    /\ CalibIdle
    /\ EnableIdle
    /\ PruneIdle
    /\ QuantIdle
    /\ StageIdle /\ ConvIdle /\ PassIdle

OthersUnchanged ==
    UNCHANGED <<calibVars, enableVars, importVars, pruneVars, quantVars,
                stageVars, convVars, passVars>>

\* line 1202: post_order_visit hands the next node to traverse_expr
TraverseNext ==
    /\ gpc = "index"
    /\ cursor < Len(PostOrder(graph))
    /\ LET node == PostOrder(graph)[cursor + 1]
       IN /\ node_dict' = TraverseExpr(node, node_dict)
          /\ visits' = Append(visits, node)
    /\ cursor' = cursor + 1
    /\ UNCHANGED <<graph, gpc, lib_calls, gret>>
    /\ OthersUnchanged

\* traverse_expr called once more with a node it was already given
TraverseAgain ==
    /\ gpc = "index"
    /\ \E node \in Range(visits) :
          /\ node_dict' = TraverseExpr(node, node_dict)
          /\ visits' = Append(visits, node)
    /\ gpc' = "reindexed"
    /\ UNCHANGED <<graph, cursor, lib_calls, gret>>
    /\ OthersUnchanged

\* the nodes of kind kind the loop of line 1203 or 1210 has yet to reach
Pending(kind) ==
    {k \in cursor..(Cardinality(DOMAIN node_dict) - 1) :
        graph[KeyAt(node_dict, k)].kind = kind}
\* the loops of lines 1203-1213 taking the last node first
NextPendingLast(kind) == CHOOSE k \in Pending(kind) : \A m \in Pending(kind) : k >= m
NextPending(kind) == CHOOSE k \in Pending(kind) : \A m \in Pending(kind) : k <= m

\* line 1203: the traversal is over, the loop over the Call nodes begins
BeginCalls ==
    /\ gpc = "index"
    /\ cursor = Len(PostOrder(graph))
    /\ gpc' = "calls"
    /\ cursor' = 0
    /\ UNCHANGED <<graph, node_dict, visits, lib_calls, gret>>
    /\ OthersUnchanged

\* how the loops of lines 1203-1216 go on after one node's import
AfterImport(r, k) ==
    /\ lib_calls' = lib_calls \o r.calls
    /\ gret' = r.gret
    /\ IF r.gret.ret = "True" THEN cursor' = k + 1 /\ gpc' = gpc
       ELSE cursor' = cursor /\ gpc' = IF r.gret.ret = "False" THEN "failed" ELSE "raised"

\* lines 1203-1207: the next Call node goes through tidl_import_node
ImportCall ==
    /\ gpc = "calls"
    /\ Pending("Call") # {}
    /\ \E attrs_ok \in BOOLEAN, link_ok \in BOOLEAN :
          AfterImport(TidlImportNode(graph, node_dict,
                                     KeyAt(node_dict, NextPending("Call")),
                                     attrs_ok, link_ok),
                      NextPending("Call"))
    /\ UNCHANGED <<graph, node_dict, visits>>
    /\ OthersUnchanged

\* line 1210: the loop over the Call nodes is over, the one over the Tuple
\* nodes begins
BeginTuples ==
    /\ gpc = "calls"
    /\ Pending("Call") = {}
    /\ gpc' = "tuples"
    /\ cursor' = 0
    /\ UNCHANGED <<graph, node_dict, visits, lib_calls, gret>>
    /\ OthersUnchanged

\* lines 1210-1216: the next Tuple node goes through tidl_import_tuple_node
ImportTuple ==
    /\ gpc = "tuples"
    /\ Pending("Tuple") # {}
    /\ \E link_fail \in 0..2 :
          AfterImport(TidlImportTupleNode(graph, node_dict,
                                          KeyAt(node_dict, NextPending("Tuple")),
                                          link_fail),
                      NextPending("Tuple"))
    /\ UNCHANGED <<graph, node_dict, visits>>
    /\ OthersUnchanged

\* line 1218: both loops are over
EndTuples ==
    /\ gpc = "tuples"
    /\ Pending("Tuple") = {}
    /\ gpc' = "done"
    /\ UNCHANGED <<graph, node_dict, visits, cursor, lib_calls, gret>>
    /\ OthersUnchanged

NextGraph ==
    \/ TraverseNext \/ TraverseAgain \/ BeginCalls \/ ImportCall
    \/ BeginTuples \/ ImportTuple \/ EndTuples
SpecGraph == InitGraph /\ [][NextGraph]_vars

(***************************************************************************)
(* Claims about the Node Index Map and the node imports (checked under     *)
(* SpecGraph).                                                             *)
(***************************************************************************)
NotOp(node) == ~IsOp(node)
\* the indexable nodes traverse_expr was given, in the order of their first
\* visit
FirstVisits == FirstOccurrences(SelectSeq(visits, NotOp))

\* C17: after any sequence of traverse_expr calls the Node Index Map is
\* injective, its values are exactly 0..size-1 in the order of the first
\* visits, it holds no operator node, and a call with a node that is already
\* indexed changes nothing: the map is the one the first visits determine.
C17_IndexIsFirstVisitOrder ==
    /\ DOMAIN node_dict = Range(FirstVisits)
    /\ \A k \in 1..Len(FirstVisits) : node_dict[FirstVisits[k]] = k - 1
    /\ \A a, b \in DOMAIN node_dict : node_dict[a] = node_dict[b] => a = b
    /\ Range(node_dict) = 0..(Cardinality(DOMAIN node_dict) - 1)
    /\ \A node \in DOMAIN node_dict : ~IsOp(node)

C17_Witness ==
    /\ gpc = "reindexed"
    /\ Len(FirstVisits) >= 3
    /\ \E k \in 1..Len(visits) : IsOp(visits[k])
    /\ Len(SelectSeq(visits, NotOp)) = Len(FirstVisits) + 1
    /\ node_dict[visits[Len(visits)]] < Len(FirstVisits) - 1

\* the Node Index Map is complete
Indexed == gpc \in {"calls", "tuples", "done", "failed", "raised"}

\* the arguments of a node with every Tuple among them replaced, in place,
\* by its fields, and so on: depth first, from left to right
RECURSIVE FlatArgs(_)
FlatArgs(args) ==
    IF args = <<>> THEN <<>>
    ELSE IF Len(args) = 1
    THEN IF graph[args[1]].kind = "Tuple" THEN FlatArgs(graph[args[1]].args)
         ELSE args
    ELSE FlatArgs(SubSeq(args, 1, Len(args) \div 2))
            \o FlatArgs(SubSeq(args, Len(args) \div 2 + 1, Len(args)))
Contributes(node) ==
    \/ graph[node].kind \in {"Call", "TupleGetItem"}
    \/ /\ graph[node].kind = "Var"
       /\ \E j \in 1..Len(graph[node].name) : graph[node].name[j] = "tidl"
       /\ \E j \in 2..Len(graph[node].name) : graph[node].name[j] \in {"i0", "i1"}
Contribution(node) ==
    CASE graph[node].kind = "Call" -> node_dict[node]
      [] graph[node].kind = "TupleGetItem" -> node_dict[graph[node].args[1]]
      [] OTHER -> -1
ExpectedInputs(node) ==
    LET flat == SelectSeq(FlatArgs(graph[node].args), Contributes)
    IN [k \in 1..Len(flat) |-> Contribution(flat[k])]

IsLink(call) == call.fn = "tidlImportLinkNodes"
\* the linking calls that carry the Adjacency Record of a node of the graph
NodeLinks ==
    {k \in 1..Len(lib_calls) :
        IsLink(lib_calls[k]) /\ lib_calls[k].rec.this_node = lib_calls[k].by}

\* C18: find_in_nodes returns the left-to-right concatenation of what the
\* arguments contribute: a Call its own index, a TupleGetItem the index of
\* its tuple value, a Tuple the flattened result of its fields at the
\* Tuple's position, a variable whose name holds the prefix and "_i" the
\* sentinel -1, anything else nothing; so for every Call and Tuple node, and
\* in every Adjacency Record handed to the library.
C18_InputsInArgumentOrder ==
    Indexed =>
        /\ \A node \in DOMAIN node_dict :
              graph[node].kind \in {"Call", "Tuple"} =>
                 FindInNodes(graph, node_dict, node, "tidl") = ExpectedInputs(node)
        /\ \A k \in NodeLinks :
              lib_calls[k].rec.in_nodes
                 = ExpectedInputs(KeyAt(node_dict, lib_calls[k].by))

C18_Witness ==
    /\ gpc = "done"
    /\ \E k \in NodeLinks :
          /\ graph[KeyAt(node_dict, lib_calls[k].by)].op = "concatenate"
          /\ lib_calls[k].rec.in_nodes = <<1, 1, -1, 1>>

\* the library calls made by the last node import
ByLast(call) == call.by = node_dict[gret.node]
Mine == SelectSeq(lib_calls, ByLast)
IsOutData(call) == call.fn = "tidlImportOutData"
OutDataCalls == SelectSeq(Mine, IsOutData)
LinkCalls == SelectSeq(Mine, IsLink)
RECURSIVE ChunksJoined(_)
ChunksJoined(links) ==
    IF links = <<>> THEN <<>>
    ELSE Head(links).rec.in_nodes \o ChunksJoined(Tail(links))
CeilDiv(a, b) == (a + b - 1) \div b

TupleImported == gret.node # 0 /\ graph[gret.node].kind = "Tuple"
IsSink(node) == FindOutNodes(graph, node_dict, node) = <<>>
\* the calls made are whole layers: an export of 1 to 16 inputs followed by
\* the link of a synthetic node, numbered on from above every index
WholeLayers ==
    /\ Len(Mine) = 2 * Len(OutDataCalls)
    /\ Len(LinkCalls) = Len(OutDataCalls)
    /\ \A k \in 1..Len(OutDataCalls) :
          /\ Mine[2 * k - 1] = OutDataCalls[k] /\ Mine[2 * k] = LinkCalls[k]
          /\ OutDataCalls[k].n \in 1..16
          /\ OutDataCalls[k].n = Len(LinkCalls[k].rec.in_nodes)
          /\ LinkCalls[k].rec.out_nodes = <<>>
          /\ LinkCalls[k].rec.this_node = LinkCalls[1].rec.this_node + k - 1
          /\ \A node \in DOMAIN node_dict :
                LinkCalls[k].rec.this_node > node_dict[node]
NoConsumerNoCalls ==
    (TupleImported /\ ~IsSink(gret.node)) => (Mine = <<>> /\ gret.ret = "True")

\* C19 as stated: for a sink Tuple with n flattened inputs
\* tidl_import_tuple_node makes exactly ceil(n/16) sink-export calls, each of
\* 1 to 16 inputs, the chunks joined in order being the input list and the
\* synthetic indices consecutive and above every index of the map; a Tuple
\* with a consumer causes no call.
C19_SinkExportsCeilChunks ==
    /\ (TupleImported /\ IsSink(gret.node)) =>
          /\ Len(OutDataCalls) = CeilDiv(Len(ExpectedInputs(gret.node)), 16)
          /\ WholeLayers
          /\ ChunksJoined(LinkCalls) = ExpectedInputs(gret.node)
    /\ NoConsumerNoCalls

\* C19 as amended: so it is when every linking call succeeds; when the j-th
\* linking call reports failure, tidl_import_tuple_node returns False after
\* j layers, which hold the first inputs of the list.
C19_SinkExportsUntilLinkFails ==
    /\ (TupleImported /\ IsSink(gret.node)) =>
          /\ WholeLayers
          /\ gret.linkfail = 0 =>
                /\ gret.ret = "True"
                /\ Len(OutDataCalls) = CeilDiv(Len(ExpectedInputs(gret.node)), 16)
                /\ ChunksJoined(LinkCalls) = ExpectedInputs(gret.node)
          /\ gret.linkfail # 0 =>
                /\ gret.ret = "False"
                /\ Len(OutDataCalls) = gret.linkfail
                /\ ChunksJoined(LinkCalls)
                      = SubSeq(ExpectedInputs(gret.node), 1,
                               Len(ChunksJoined(LinkCalls)))
                /\ \A k \in 1..(Len(OutDataCalls) - 1) : OutDataCalls[k].n = 16
    /\ NoConsumerNoCalls

C19_Witness ==
    /\ TupleImported /\ IsSink(gret.node) /\ gret.ret = "True"
    /\ Len(ExpectedInputs(gret.node)) = 20
    /\ Len(OutDataCalls) = 2
    /\ OutDataCalls[1].n = 16 /\ OutDataCalls[2].n = 4
    /\ LinkCalls[2].rec.this_node = LinkCalls[1].rec.this_node + 1

CallImported == gret.node # 0 /\ graph[gret.node].kind = "Call"
\* the export function of an operator's handler
ExportOf(node) ==
    LET op == graph[node].op
        constant_bias == /\ Len(graph[node].args) >= 2
                         /\ graph[graph[node].args[2]].kind = "Constant"
    IN CASE op = "nn.conv2d" -> "tidlImportConv2d"
         [] op = "nn.pad" -> "tidlImportPad"
         [] op = "add" -> IF constant_bias THEN "tidlImportBiasAdd" ELSE "tidlImportAdd"
         [] op = "nn.bias_add" -> "tidlImportBiasAdd"
         [] op \in {"clip", "nn.relu"} -> "tidlImportRelu"
         [] op = "nn.batch_norm" -> "tidlImportBatchNorm"
         [] op \in {"nn.avg_pool2d", "nn.max_pool2d", "nn.global_avg_pool2d"} ->
               "tidlImportPooling"
         [] op = "squeeze" -> "tidlImportSqueeze"
         [] op = "reshape" -> "tidlImportReshape"
         [] op = "nn.softmax" -> "tidlImportSoftmax"
         [] op = "concatenate" -> "tidlImportConcat"
         [] op = "nn.dropout" -> "tidlImportDropOut"
         [] op = "nn.batch_flatten" -> "tidlImportBatchFlatten"
         [] op = "multiply" -> "tidlImportMul"
         [] op = "nn.dense" -> "tidlImportDense"
         [] OTHER -> "none"

\* C20: tidl_import_node on a Call whose operator is outside the supported
\* set returns False without any export or linking call; for a supported
\* operator whose handler succeeds, exactly one export call, the operator's
\* own, is followed by exactly one linking call carrying the node's
\* Adjacency Record, and a linking call that reports failure makes
\* tidl_import_node return False.
C20_ExportThenLink ==
    CallImported =>
        /\ graph[gret.node].op \in Range(OtherOps) =>
              gret.ret = "False" /\ Mine = <<>>
        /\ (graph[gret.node].op \in Range(SupportedOps) /\ gret.handler = "ok") =>
              /\ Len(Mine) = 2
              /\ Mine[1].fn = ExportOf(gret.node) /\ Mine[1].rec = NoRecord
              /\ Mine[2] = Link(node_dict[gret.node],
                                InOutNodes(node_dict[gret.node],
                                           ExpectedInputs(gret.node),
                                           FindOutNodes(graph, node_dict, gret.node)))
              /\ gret.linkfail # 0 => gret.ret = "False"
              /\ gret.linkfail = 0 => gret.ret = "True"

C20_Witness ==
    /\ CallImported /\ graph[gret.node].op = "nn.conv2d"
    /\ gret.handler = "ok" /\ gret.linkfail = 1 /\ gret.ret = "False"
    /\ Len(Mine) = 2 /\ Mine[1].fn = "tidlImportConv2d"
    /\ Mine[2].rec = InOutNodes(2, <<-1>>, <<>>)

\* the positions in lib_calls of the first library call of each node import
Calls == {node \in DOMAIN node_dict : graph[node].kind = "Call"}
LinkOf(node) == {k \in NodeLinks : lib_calls[k].by = node_dict[node]}
SinkCalls == {k \in 1..Len(lib_calls) : IsOutData(lib_calls[k])}

\* C26: the Call nodes are imported in strictly ascending index order, none
\* skipped; in every Adjacency Record linked for a Call every input index
\* except the sentinel is smaller than the node's index and every output
\* index is larger; every Call is imported before the first sink export.
C26_ImportInDependencyOrder ==
    /\ \A j, k \in NodeLinks : j < k => lib_calls[j].by < lib_calls[k].by
    /\ \A k \in NodeLinks : \A node \in Calls :
          node_dict[node] < lib_calls[k].by =>
             \E j \in LinkOf(node) : j < k
    /\ \A k \in NodeLinks :
          LET rec == lib_calls[k].rec
          IN /\ \A j \in 1..Len(rec.in_nodes) :
                   rec.in_nodes[j] # -1 => rec.in_nodes[j] < rec.this_node
             /\ \A j \in 1..Len(rec.out_nodes) :
                   rec.out_nodes[j] > rec.this_node
    /\ \A k \in SinkCalls :
          /\ \A j \in NodeLinks : j < k
          /\ \A node \in Calls : LinkOf(node) # {}
    /\ gpc \in {"tuples", "done"} => \A node \in Calls : LinkOf(node) # {}

C26_Witness ==
    /\ gpc = "done"
    /\ Cardinality(NodeLinks) = 2
    /\ SinkCalls # {}
    /\ \E k \in NodeLinks : /\ lib_calls[k].rec.in_nodes = <<1>>
                            /\ lib_calls[k].rec.this_node = 2
    /\ \E k \in NodeLinks : /\ lib_calls[k].rec.out_nodes[1] = 2
                            /\ lib_calls[k].rec.this_node = 1

NoDuplicates(q) == \A j, k \in 1..Len(q) : q[j] = q[k] => j = k

\* C29: adjacency is symmetric inside one indexed subgraph: for all Call
\* nodes a and b the index of b is among find_out_nodes(a) exactly when the
\* index of a is among find_in_nodes(b), also through TupleGetItem and Tuple
\* nodes, and find_out_nodes reports each consumer index at most once.
C29_AdjacencySymmetric ==
    Indexed =>
        \A a \in Calls :
           /\ \A b \in Calls :
                 node_dict[b] \in Range(FindOutNodes(graph, node_dict, a))
                    <=> node_dict[a] \in Range(FindInNodes(graph, node_dict, b, "tidl"))
           /\ NoDuplicates(FindOutNodes(graph, node_dict, a))

(***************************************************************************)
(* SpecStage: the staging steps of subgraph_calibration, lines 507-540.    *)
(* subprocess.Popen returns as soon as the child is started and the code   *)
(* never waits for rm, mkdir or cp, so each child takes effect at any      *)
(* moment after its Popen, also after the tool was launched.  rm -rf is    *)
(* taken as one step.                                                      *)
(***************************************************************************)
PRECALIB == "precalib_net.bin"
CONFIG == "configFilesList.txt"
QUANT == "quant_stats_config.txt"
TempFiles == {PRECALIB, CONFIG, QUANT, "stats_tool_out.bin"}

\* what an earlier calibration run left behind
InitStage ==
    /\ \E dir \in BOOLEAN, raw \in BOOLEAN, files \in SUBSET TempFiles :
          /\ ~dir => files = {}
          /\ stage_fs = [dir |-> dir, files |-> files, raw |-> raw]
    /\ spc = "raw"
    /\ child = NoChildren
    /\ stage_log = <<>>
    /\ tool_saw = NoFs
    /\ CalibIdle /\ EnableIdle /\ PruneIdle /\ QuantIdle /\ GraphIdle
    /\ ConvIdle /\ PassIdle

StageOthers ==
    UNCHANGED <<calibVars, enableVars, importVars, pruneVars, quantVars,
                graphVars, convVars, passVars>>
Effect(what, ok) == [what |-> what, ok |-> ok]

\* lines 507-511: tofile writes ./calib_raw_data.bin
WriteRawImage ==
    /\ spc = "raw"
    /\ stage_fs' = [stage_fs EXCEPT !.raw = TRUE]
    /\ spc' = "rm"
    /\ UNCHANGED <<child, stage_log, tool_saw>>
    /\ StageOthers

\* a Popen of lines 515-517: the child is started, nothing waits for it
Spawn(p, name, next) ==
    /\ spc = p
    /\ child' = [child EXCEPT ![name] = "running"]
    /\ spc' = next
    /\ UNCHANGED <<stage_fs, stage_log, tool_saw>>
    /\ StageOthers
SpawnRm == Spawn("rm", "rm", "mkdir")          \* line 515
SpawnMkdir == Spawn("mkdir", "mkdir", "cp")    \* line 516
SpawnCp == Spawn("cp", "cp", "config")         \* line 517

\* a child process takes effect
Exits(name, ok, fs) ==
    /\ child[name] = "running"
    /\ child' = [child EXCEPT ![name] = IF ok THEN "ok" ELSE "failed"]
    /\ stage_fs' = fs
    /\ stage_log' = Append(stage_log, Effect(name, ok))
    /\ UNCHANGED <<spc, tool_saw>>
    /\ StageOthers
\* rm -rf tempDir
RunRm == Exits("rm", TRUE, [stage_fs EXCEPT !.dir = FALSE, !.files = {}])
\* mkdir tempDir: fails when tempDir exists
RunMkdir == Exits("mkdir", ~stage_fs.dir, [stage_fs EXCEPT !.dir = TRUE])
\* cp net_file ./tempDir/precalib_net.bin: fails without tempDir
RunCp ==
    Exits("cp", stage_fs.dir,
          IF stage_fs.dir THEN [stage_fs EXCEPT !.files = @ \cup {PRECALIB}]
          ELSE stage_fs)

\* open(file, 'w') in tempDir: FileNotFoundError without the directory
WriteFile(p, file, what, next) ==
    /\ spc = p
    /\ IF stage_fs.dir
       THEN /\ stage_fs' = [stage_fs EXCEPT !.files = @ \cup {file}]
            /\ stage_log' = Append(stage_log, Effect(what, TRUE))
            /\ spc' = next
       ELSE /\ spc' = "raised"
            /\ UNCHANGED <<stage_fs, stage_log>>
    /\ UNCHANGED <<child, tool_saw>>
    /\ StageOthers
WriteConfig == WriteFile("config", CONFIG, "config", "quant")   \* lines 519-522
WriteQuant == WriteFile("quant", QUANT, "quant", "launch")      \* lines 524-535

\* lines 538-540: the tool is started on what is in tempDir now
LaunchTool ==
    /\ spc = "launch"
    /\ tool_saw' = stage_fs
    /\ stage_log' = Append(stage_log, Effect("launch", TRUE))
    /\ spc' = "launched"
    /\ UNCHANGED <<stage_fs, child>>
    /\ StageOthers

NextStage ==
    \/ WriteRawImage \/ SpawnRm \/ SpawnMkdir \/ SpawnCp
    \/ RunRm \/ RunMkdir \/ RunCp
    \/ WriteConfig \/ WriteQuant \/ LaunchTool
SpecStage == InitStage /\ [][NextStage]_vars

\* the positions of an effect in the log
At(what) == {k \in 1..Len(stage_log) : stage_log[k].what = what}

\* C21: the removal of the old tempDir, its re-creation and the copy of the
\* network binary have each completed, in this order, before the descriptor
\* files are written and before the tool is launched; so the tool starts
\* with tempDir holding the copy of the network binary and both descriptor
\* files.
C21_StagedBeforeLaunch ==
    /\ \A k \in At("config") \cup At("quant") \cup At("launch") :
          \E a \in At("rm"), b \in At("mkdir"), c \in At("cp") :
             /\ a < b /\ b < c /\ c < k
             /\ stage_log[b].ok /\ stage_log[c].ok
    /\ spc = "launched" =>
          tool_saw.dir /\ {PRECALIB, CONFIG, QUANT} \subseteq tool_saw.files

(***************************************************************************)
(* SpecConv: one call of TIDLImport.tidl_import_conv2d, lines 650-741.     *)
(* An array is its shape and its elements in C order; the elements of the  *)
(* kernel are numbered 1, 2, ... so that every permutation shows.          *)
(***************************************************************************)
MaxDim == 2
Product(shape) == shape[1] * shape[2] * shape[3] * shape[4]
\* the position in C order of the element at a (0-based) index
Ravel(shape, idx) ==
    ((idx[1] * shape[2] + idx[2]) * shape[3] + idx[3]) * shape[4] + idx[4] + 1
\* the index of the element at position k (1-based) in C order
Unravel(shape, k) ==
    <<((k - 1) \div (shape[2] * shape[3] * shape[4])),
      ((k - 1) \div (shape[3] * shape[4])) % shape[2],
      ((k - 1) \div shape[4]) % shape[3],
      (k - 1) % shape[4]>>
\* ndarray.transpose(axes): axis j of the result is axis axes[j] of arr
Transpose(arr, axes) ==
    LET shape == [j \in 1..4 |-> arr.shape[axes[j] + 1]]
        old(idx) == [a \in 1..4 |-> idx[CHOOSE j \in 1..4 : axes[j] + 1 = a]]
    IN [shape |-> shape,
        data |-> [k \in 1..Product(shape) |->
                     arr.data[Ravel(arr.shape, old(Unravel(shape, k)))]]]

\* line 715 with the permutation of line 720
AxesOfHWOI(layout) == <<2, 3, 0, 1>>
\* lines 707-722: the permutation that makes the layout OIHW
AxesOf(layout) ==
    CASE layout = "HWIO" -> <<3, 2, 0, 1>>
      [] layout = "HWOI" -> <<2, 3, 0, 1>>
      [] OTHER -> <<0, 1, 2, 3>>
\* lines 710-711, 716-717 and 721-722: where O and I are in weight_shape
OutAxis(layout) == CASE layout = "HWIO" -> 4 [] layout = "HWOI" -> 3 [] OTHER -> 1
InAxis(layout) == CASE layout = "HWIO" -> 3 [] layout = "HWOI" -> 4 [] OTHER -> 2
\* lines 686-693: top, left, bottom, right
Pads(pad) ==
    IF Len(pad) = 1 THEN <<pad[1], pad[1], pad[1], pad[1]>>
    ELSE IF Len(pad) = 2 THEN <<pad[1], pad[2], pad[1], pad[2]>>
    ELSE pad

TidlImportConv2d(w, layout, type, pad) ==
    IF layout \notin {"OIHW", "HWIO", "HWOI"} THEN [status |-> "False", calls |-> <<>>]
    ELSE IF type # "float32" THEN [status |-> "False", calls |-> <<>>]
    ELSE [status |-> "True",
          calls |-> <<[fn |-> "tidlImportConv2d",
                       kernel_layout |-> "OIHW",
                       num_in_channels |-> w.shape[InAxis(layout)],
                       num_out_channels |-> w.shape[OutAxis(layout)],
                       pads |-> Pads(pad),
                       weights_type |-> "float32",
                       weights_array |-> Transpose(w, AxesOf(layout)).data]>>]

KernelLayouts == {"OIHW", "HWIO", "HWOI", "IOHW", "OHWI"}
WeightTypes == {"float32", "float16", "int8"}
Paddings == {<<1>>, <<1, 2>>, <<1, 2, 3, 4>>}
Kernels ==
    {[shape |-> shape, data |-> [k \in 1..Product(shape) |-> k]] :
        shape \in [1..4 -> 1..MaxDim]}

InitConv ==
    /\ weights \in Kernels
    /\ kernel_layout \in KernelLayouts
    /\ weight_type \in WeightTypes
    /\ weight_kind \in {"Constant", "Var"}
    /\ padding \in Paddings
    /\ vpc = "call"
    /\ vret = NoConv
    /\ CalibIdle /\ EnableIdle /\ PruneIdle /\ QuantIdle /\ GraphIdle
    /\ StageIdle /\ PassIdle

\* tidl_import_conv2d, lines 650-741; the kernel is weight.data or
\* params[weight.name_hint], lines 699-703
ImportConv2d ==
    /\ vpc = "call"
    /\ vret' = TidlImportConv2d(weights, kernel_layout, weight_type, padding)
    /\ vpc' = "done"
    /\ UNCHANGED <<weights, kernel_layout, weight_type, weight_kind, padding>>
    /\ UNCHANGED <<calibVars, enableVars, importVars, pruneVars, quantVars,
                   graphVars, stageVars, passVars>>

NextConv == ImportConv2d
SpecConv == InitConv /\ [][NextConv]_vars

\* the source element the layout puts at output channel o, input channel
\* i, row h, column w
SourceAt(o, i, h, w) ==
    CASE kernel_layout = "OIHW" -> weights.data[Ravel(weights.shape, <<o, i, h, w>>)]
      [] kernel_layout = "HWIO" -> weights.data[Ravel(weights.shape, <<h, w, i, o>>)]
      [] kernel_layout = "HWOI" -> weights.data[Ravel(weights.shape, <<h, w, o, i>>)]
\* the extent of dimension letter in the source
Extent(letter) ==
    weights.shape[CHOOSE j \in 1..4 :
                     CASE kernel_layout = "OIHW" -> <<"O", "I", "H", "W">>[j] = letter
                       [] kernel_layout = "HWIO" -> <<"H", "W", "I", "O">>[j] = letter
                       [] kernel_layout = "HWOI" -> <<"H", "W", "O", "I">>[j] = letter]

\* C28: tidl_import_conv2d hands the kernel to the export call in O,I,H,W
\* order for OIHW, HWIO and HWOI sources, element [o][i][h][w] being the
\* source element at [o][i][h][w], [h][w][i][o] and [h][w][o][i], with
\* num_out_channels and num_in_channels the O and I extents; for any other
\* kernel layout, or an element type other than float32, it returns False
\* and makes no export call.
C28_KernelDeliveredAsOIHW ==
    vpc = "done" =>
        IF kernel_layout \in {"OIHW", "HWIO", "HWOI"} /\ weight_type = "float32"
        THEN /\ vret.status = "True"
             /\ Len(vret.calls) = 1
             /\ vret.calls[1].num_out_channels = Extent("O")
             /\ vret.calls[1].num_in_channels = Extent("I")
             /\ Len(vret.calls[1].weights_array) = Product(weights.shape)
             /\ \A o \in 0..(Extent("O") - 1), i \in 0..(Extent("I") - 1),
                   h \in 0..(Extent("H") - 1), w \in 0..(Extent("W") - 1) :
                   vret.calls[1].weights_array[
                       Ravel(<<Extent("O"), Extent("I"), Extent("H"), Extent("W")>>,
                             <<o, i, h, w>>)] = SourceAt(o, i, h, w)
        ELSE vret.status = "False" /\ vret.calls = <<>>

C28_Witness ==
    /\ vpc = "done" /\ kernel_layout = "HWIO" /\ weights.shape = <<1, 2, 1, 2>>
    /\ vret.status = "True"
    /\ vret.calls[1].weights_array = <<1, 3, 2, 4>>
    /\ vret.calls[1].num_out_channels = 2 /\ vret.calls[1].num_in_channels = 1

(***************************************************************************)
(* Relay expressions for the expression passes.  An expression is a        *)
(* record, equal records being one node; a name is the sequence of its     *)
(* "_"-separated parts; fn holds the callee of a Call whose op is a        *)
(* Function.                                                               *)
(***************************************************************************)
NoData == [shape |-> <<>>, item |-> 0]
RelayVar(name) ==
    [kind |-> "Var", name |-> name, args |-> <<>>, fn |-> <<>>, data |-> NoData]
RelayConstant(shape, item) ==
    [kind |-> "Constant", name |-> <<>>, args |-> <<>>, fn |-> <<>>,
     data |-> [shape |-> shape, item |-> item]]
RelayCall(op, args) ==
    [kind |-> "Call", name |-> <<op>>, args |-> args, fn |-> <<>>, data |-> NoData]
RelayApply(f, args) ==
    [kind |-> "Call", name |-> <<>>, args |-> args, fn |-> <<f>>, data |-> NoData]
RelayTuple(fields) ==
    [kind |-> "Tuple", name |-> <<>>, args |-> fields, fn |-> <<>>, data |-> NoData]
RelayTupleGetItem(value, index) ==
    [kind |-> "TupleGetItem", name |-> <<Str(index)>>, args |-> <<value>>,
     fn |-> <<>>, data |-> NoData]
RelayFunction(params, body, compiler, composite) ==
    [params |-> params, body |-> body, compiler |-> compiler,
     composite |-> composite]
IsApply(e) == e.kind = "Call" /\ e.fn # <<>>

PassOthers ==
    UNCHANGED <<calibVars, enableVars, importVars, pruneVars, quantVars,
                graphVars, stageVars, convVars>>
PassInit(inputs) ==
    /\ pass_in \in inputs
    /\ pass_mid = <<>> /\ pass_out = <<>> /\ ppc = "call"
    /\ CalibIdle /\ EnableIdle /\ PruneIdle /\ QuantIdle /\ GraphIdle
    /\ StageIdle /\ ConvIdle

(***************************************************************************)
(* SpecMultiply: RemoveMultiplyByOne().visit(mod['main']), line 1333.      *)
(***************************************************************************)
\* lines 327 and 331: data.shape == () and data.item() == 1.0
IsScalarOne(e) == e.kind = "Constant" /\ e.data.shape = <<>> /\ e.data.item = 1

\* RemoveMultiplyByOne.visit_call, lines 323-333; every other node goes
\* through ExprMutator, which rebuilds it from its visited children
RECURSIVE RemoveMultiplyByOne(_)
RemoveMultiplyByOne(expr) ==
    LET super == [expr EXCEPT !.args = [j \in 1..Len(expr.args) |->
                                           RemoveMultiplyByOne(expr.args[j])]]
    IN IF expr.kind = "Call" /\ expr.name = <<"multiply">>
       THEN IF IsScalarOne(expr.args[2]) THEN expr.args[1]       \* line 328
            ELSE IF IsScalarOne(expr.args[1]) THEN expr.args[2]  \* line 332
            ELSE super
       ELSE super

\* the bodies of main under test: constants that are the scalar 1.0, the
\* scalar 2.0 and a vector of ones, under up to two levels of operators
Operands == {RelayVar(<<"data">>), RelayConstant(<<>>, 1), RelayConstant(<<>>, 2),
             RelayConstant(<<2>>, 1)}
Inner ==
    Operands
    \cup {RelayCall(op, <<a, b>>) : op \in {"multiply", "add"},
                                     a \in Operands, b \in Operands}
    \cup {RelayCall("nn.relu", <<a>>) : a \in Operands}
Outer ==
    Inner
    \cup {RelayCall("multiply", <<a, b>>) : a \in Inner, b \in Operands}
    \cup {RelayCall("multiply", <<b, a>>) : a \in Inner, b \in Operands}
    \cup {RelayCall("nn.relu", <<a>>) : a \in Inner}
\* line 1332: FoldConstant has left no Call all of whose arguments are
\* constants
RECURSIVE Folded(_)
Folded(e) ==
    /\ e.kind = "Call" => \E j \in 1..Len(e.args) : e.args[j].kind # "Constant"
    /\ \A j \in 1..Len(e.args) : Folded(e.args[j])
MultiplyInputs ==
    {RelayFunction(<<<<"data">>>>, body, "", "") : body \in {e \in Outer : Folded(e)}}

InitMultiply == PassInit(MultiplyInputs)

\* line 1333
RemoveMultiply ==
    /\ ppc = "call"
    /\ pass_out' = [pass_in EXCEPT !.body = RemoveMultiplyByOne(pass_in.body)]
    /\ ppc' = "done"
    /\ UNCHANGED <<pass_in, pass_mid>>
    /\ PassOthers

NextMultiply == RemoveMultiply
SpecMultiply == InitMultiply /\ [][NextMultiply]_vars

IsMultiplyByOne(e) ==
    /\ e.kind = "Call" /\ e.name = <<"multiply">>
    /\ IsScalarOne(e.args[1]) \/ IsScalarOne(e.args[2])
RECURSIVE HasMultiplyByOne(_)
HasMultiplyByOne(e) ==
    \/ IsMultiplyByOne(e)
    \/ \E j \in 1..Len(e.args) : HasMultiplyByOne(e.args[j])
\* e with every multiply by the scalar 1.0 replaced by its other operand
RECURSIVE WithoutMultiplyByOne(_)
WithoutMultiplyByOne(e) ==
    LET below == [e EXCEPT !.args = [j \in 1..Len(e.args) |->
                                        WithoutMultiplyByOne(e.args[j])]]
    IN IF IsMultiplyByOne(e)
       THEN IF IsScalarOne(e.args[2]) THEN below.args[1] ELSE below.args[2]
       ELSE below

\* C25: after RemoveMultiplyByOne has visited a function the result holds
\* no multiply Call with a scalar Constant 1.0 as either operand, also not
\* inside the operand of another multiply by one, while every other
\* multiply is left in place.
C25_NoMultiplyByOneLeft ==
    ppc = "done" =>
        /\ ~HasMultiplyByOne(pass_out.body)
        /\ pass_out.body = WithoutMultiplyByOne(pass_in.body)

(***************************************************************************)
(* SpecCalibGraph: CalibrationGraphMutator.make_calibration_graph on the   *)
(* inlined main, lines 341-344.                                            *)
(***************************************************************************)
\* VarReplacer, lines 224-232: var_map maps the names of parameters
RECURSIVE VarReplacer(_, _)
VarReplacer(var_map, e) ==
    IF e.kind = "Var"
    THEN IF e.name \in DOMAIN var_map THEN var_map[e.name] ELSE e
    ELSE [e EXCEPT !.args = [j \in 1..Len(e.args) |-> VarReplacer(var_map, e.args[j])],
                   !.fn = [j \in 1..Len(e.fn) |->
                              [e.fn[j] EXCEPT !.body = VarReplacer(var_map, @)]]]

\* line 288
IsCompilerCall(e, compiler) == IsApply(e) /\ e.fn[1].compiler = compiler

\* checked_type of an expression: a split yields a tuple of two tensors
RECURSIVE IsTupleType(_)
IsTupleType(e) ==
    \/ e.kind = "Tuple"
    \/ e.kind = "Call" /\ e.name = <<"split">>
    \/ IsApply(e) /\ IsTupleType(e.fn[1].body)
RECURSIVE TupleTypeLen(_)
TupleTypeLen(e) ==
    IF e.kind = "Tuple" THEN Len(e.args)
    ELSE IF IsApply(e) THEN TupleTypeLen(e.fn[1].body)
    ELSE 2

\* lines 302-304 with the count left at 1
NumOriginalOutputsOne(body) == 1
\* lines 302-304
NumOriginalOutputs(body) == IF IsTupleType(body) THEN TupleTypeLen(body) ELSE 1

OStr == <<"o0", "o1", "o2">>
\* one pass of lines 277-278 or 284-285
AddOutput(st, name, out) ==
    [st EXCEPT !.name_map =
                  (st.num_original_outputs + Len(st.additional_outputs) :> name) @@ @,
               !.additional_outputs = Append(@, out)]
\* add_new_outputs, lines 269-285
RECURSIVE AddFields(_, _, _, _, _)
AddFields(st, subgraph_name, fields, i, was_input) ==
    IF i >= Len(fields) THEN st
    ELSE AddFields(AddOutput(st, subgraph_name \o <<IF was_input THEN Str(i)
                                                    ELSE OStr[i + 1]>>,
                             fields[i + 1]),
                   subgraph_name, fields, i + 1, was_input)
AddNewOutputs(st, subgraph_name, expr, was_input) ==
    IF expr.kind = "Tuple" THEN AddFields(st, subgraph_name, expr.args, 0, was_input)
    ELSE AddOutput(st, IF was_input THEN subgraph_name
                       ELSE subgraph_name \o <<"o0">>, expr)

\* ExprMutator.visit with its memo, and CalibrationGraphMutator.visit_call,
\* lines 287-299; st holds the mutator's fields and the memo; the result is
\* the new expression and the new st
Visited(expr, st) == [expr |-> expr, st |-> st]
Memo(e, r) ==
    Visited(r.expr, [r.st EXCEPT !.memo = @ \cup {[of |-> e, is |-> r.expr]}])
RECURSIVE CalibVisit(_, _, _)
RECURSIVE CalibVisitAll(_, _, _, _)
RECURSIVE CalibVisitArgs(_, _, _, _, _)
CalibVisitAll(es, j, st, compiler) ==
    IF j > Len(es) THEN Visited(<<>>, st)
    ELSE LET head == CalibVisit(es[j], st, compiler)
             rest == CalibVisitAll(es, j + 1, head.st, compiler)
         IN Visited(<<head.expr>> \o rest.expr, rest.st)
\* lines 290-294: the loop over zip(call.args, call.op.params); the result's
\* expr is var_map
CalibVisitArgs(call, j, var_map, st, compiler) ==
    IF j > Min(Len(call.args), Len(call.fn[1].params)) THEN Visited(var_map, st)
    ELSE LET param == call.fn[1].params[j]
             arg == CalibVisit(call.args[j], st, compiler)
         IN CalibVisitArgs(call, j + 1, (param :> arg.expr) @@ var_map,
                           AddNewOutputs(arg.st, param, arg.expr, TRUE), compiler)
CalibVisit(e, st, compiler) ==
    IF \E m \in st.memo : m.of = e
    THEN Visited((CHOOSE m \in st.memo : m.of = e).is, st)
    ELSE IF IsCompilerCall(e, compiler)
    THEN LET params == e.fn[1].params
             subgraph_name == FirstTwo(params[Len(params)])          \* line 291
             mapped == CalibVisitArgs(e, 1, <<>>, st, compiler)
             new_body == VarReplacer(mapped.expr, e.fn[1].body)      \* line 295
         IN Memo(e, Visited(new_body,
                            AddNewOutputs(mapped.st, subgraph_name, new_body, FALSE)))
    ELSE LET args == CalibVisitAll(e.args, 1, st, compiler)
         IN Memo(e, Visited([e EXCEPT !.args = args.expr], args.st))

\* make_calibration_graph, lines 301-314
MakeCalibrationGraph(expr, compiler) ==
    LET n == NumOriginalOutputs(expr.body)
        visit_body == CalibVisit(expr.body,
                                 [num_original_outputs |-> n, memo |-> {},
                                  additional_outputs |-> <<>>, name_map |-> <<>>],
                                 compiler)
        outputs == IF visit_body.expr.kind = "Tuple" THEN visit_body.expr.args
                   ELSE <<visit_body.expr>>
    IN [func |-> RelayFunction(expr.params,
                               RelayTuple(outputs \o visit_body.st.additional_outputs),
                               expr.compiler, expr.composite),
        name_map |-> visit_body.st.name_map]

\* the subgraph functions after the pruning passes: one tensor parameter,
\* the body a tensor or a Tuple of tensors
Subgraph(k, shape) ==
    LET param == <<"tidl", Str(k), "i0">>
        p == RelayVar(param)
    IN RelayFunction(<<param>>,
                     IF shape = "tensor" THEN RelayCall("nn.relu", <<p>>)
                     ELSE RelayTuple(<<RelayCall("nn.relu", <<p>>),
                                       RelayCall("add", <<p, p>>)>>),
                     "tidl", "")
\* what a call of subgraph k on the tensors in from can hand on as a tensor
TensorsOf(k, from) ==
    {RelayApply(Subgraph(k, "tensor"), <<a>>) : a \in from}
    \cup {RelayTupleGetItem(RelayApply(Subgraph(k, "tuple"), <<a>>), i) :
             a \in from, i \in 0..1}
TuplesOf(k, from) == {RelayApply(Subgraph(k, "tuple"), <<a>>) : a \in from}
Data == {RelayVar(<<"data">>), RelayCall("nn.relu", <<RelayVar(<<"data">>)>>)}
AfterFirst == Data \cup TensorsOf(0, Data)
AfterSecond == AfterFirst \cup TensorsOf(1, AfterFirst)
\* the bodies of main: a tensor, a Tuple literal, a call of a subgraph that
\* returns a tuple, and the tuple a split returns
CalibBodies ==
    AfterSecond
    \cup {RelayTuple(<<a, b>>) : a \in AfterFirst, b \in TensorsOf(1, Data)}
    \cup TuplesOf(0, Data) \cup TuplesOf(1, AfterFirst)
    \cup {RelayCall("split", <<a>>) : a \in AfterSecond}
CalibInputs == {RelayFunction(<<<<"data">>>>, body, "", "") : body \in CalibBodies}

InitCalibGraph == PassInit(CalibInputs)

\* line 344
CalibrationGraph ==
    /\ ppc = "call"
    /\ pass_out' = MakeCalibrationGraph(pass_in, "tidl")
    /\ ppc' = "done"
    /\ UNCHANGED <<pass_in, pass_mid>>
    /\ PassOthers

NextCalibGraph == CalibrationGraph
SpecCalibGraph == InitCalibGraph /\ [][NextCalibGraph]_vars

\* the output slots of a function whose body is the Tuple of fields, as
\* lines 355-363 number them: a field of tuple type takes one slot per
\* field of its type
RECURSIVE OutputSlots(_)
OutputSlots(fields) ==
    IF fields = <<>> THEN <<>>
    ELSE LET f == Head(fields) IN
         (IF f.kind = "Tuple" THEN OutputSlots(f.args)
          ELSE IF IsTupleType(f)
          THEN [j \in 1..TupleTypeLen(f) |-> [of |-> f, field |-> j - 1]]
          ELSE <<[of |-> f, field |-> -1]>>)
         \o OutputSlots(Tail(fields))

\* e with every call of a tidl subgraph replaced by the subgraph's body on
\* the call's arguments
RECURSIVE Inlined(_)
Inlined(e) ==
    LET args == [j \in 1..Len(e.args) |-> Inlined(e.args[j])]
    IN IF IsCompilerCall(e, "tidl")
       THEN VarReplacer([nm \in Range(e.fn[1].params) |->
                            args[CHOOSE j \in 1..Len(args) : e.fn[1].params[j] = nm]],
                        e.fn[1].body)
       ELSE [e EXCEPT !.args = args]
\* the calls of tidl subgraphs in e
RECURSIVE SubgraphCalls(_)
SubgraphCalls(e) ==
    (IF IsCompilerCall(e, "tidl") THEN {e} ELSE {})
    \cup UNION {SubgraphCalls(e.args[j]) : j \in 1..Len(e.args)}
\* the boundary tensors of the calls in e, by name: the argument of each
\* call and each of its outputs
Boundaries(e) ==
    UNION {LET body == Inlined(c)
               nm == FirstTwo(c.fn[1].params[1])
           IN {[name |-> c.fn[1].params[1], is |-> Inlined(c.args[1])]}
              \cup (IF body.kind = "Tuple"
                    THEN {[name |-> nm \o <<OStr[j]>>, is |-> body.args[j]] :
                             j \in 1..Len(body.args)}
                    ELSE {[name |-> nm \o <<"o0">>, is |-> body]})
           : c \in SubgraphCalls(e)}
Slots == OutputSlots(pass_out.func.body.args)

\* C22: for the function make_calibration_graph builds, every entry
\* (k -> name) of name_map has output slot k holding exactly the boundary
\* expression of that name, every boundary has its entry, and the original
\* outputs keep the slots 0..num_original_outputs-1, whatever the shape of
\* the original return value.
C22_NameMapMatchesSlots ==
    ppc = "done" =>
        LET original == OutputSlots(<<Inlined(pass_in.body)>>) IN
        /\ SubSeq(Slots, 1, Len(original)) = original
        /\ \A k \in DOMAIN pass_out.name_map :
              /\ k >= Len(original) /\ k < Len(Slots)
              /\ Slots[k + 1].field = -1
              /\ [name |-> pass_out.name_map[k], is |-> Slots[k + 1].of]
                    \in Boundaries(pass_in.body)
        /\ \A b \in Boundaries(pass_in.body) :
              \E k \in DOMAIN pass_out.name_map :
                 pass_out.name_map[k] = b.name /\ Slots[k + 1].of = b.is
        /\ Len(Slots) = Len(original) + Cardinality(DOMAIN pass_out.name_map)

C22_Witness ==
    /\ ppc = "done"
    /\ pass_in.body.kind = "Call" /\ pass_in.body.name = <<"split">>
    /\ DOMAIN pass_out.name_map = 2..6
    /\ pass_out.name_map[2] = <<"tidl", "0", "i0">>
    /\ pass_out.name_map[4] = <<"tidl", "0", "o1">>
    /\ pass_out.name_map[6] = <<"tidl", "1", "o0">>
    /\ Slots[1].field = 0 /\ Slots[2].field = 1
    /\ Len(pass_out.func.body.args) = 6

(***************************************************************************)
(* SpecUnpack: UnpackComposites and PruneSubgraphsWithMoreThanOneInput,    *)
(* lines 1340-1341, applied to a partitioned module and then to their own  *)
(* result.  A module here carries, beside its functions and main, the      *)
(* body expression of every function in exprs.                             *)
(***************************************************************************)
\* Unpacker.visit_call, lines 239-247, and ExprMutator's visit elsewhere
RECURSIVE Unpacker(_)
Unpacker(e) ==
    IF IsApply(e) /\ e.fn[1].composite # ""
    THEN LET params == e.fn[1].params
             n == Min(Len(e.args), Len(params))
             var_map == [nm \in {params[j] : j \in 1..n} |->
                            Unpacker(e.args[CHOOSE j \in 1..n : params[j] = nm])]
         IN VarReplacer(var_map, e.fn[1].body)
    ELSE [e EXCEPT !.args = [j \in 1..Len(e.args) |-> Unpacker(e.args[j])],
                   !.fn = [j \in 1..Len(e.fn) |->
                              [e.fn[j] EXCEPT !.body = Unpacker(@)]]]

\* UnpackComposites, lines 234-254
UnpackComposites(m, compiler) ==
    [m EXCEPT !.exprs = [nm \in DOMAIN m.exprs |->
                            IF m.funcs[nm].compiler = compiler
                            THEN Unpacker(m.exprs[nm]) ELSE m.exprs[nm]]]

\* VarRenamer over an expression, lines 374-378
RECURSIVE RenameExpr(_, _)
RenameExpr(new_name, e) ==
    IF e.kind = "Var" THEN [e EXCEPT !.name = RenameVar(new_name, @)]
    ELSE [e EXCEPT !.args = [j \in 1..Len(e.args) |-> RenameExpr(new_name, e.args[j])],
                   !.fn = [j \in 1..Len(e.fn) |->
                              [e.fn[j] EXCEPT
                                 !.params = [i \in 1..Len(@) |-> RenameVar(new_name, @[i])],
                                 !.body = RenameExpr(new_name, @)]]]

\* PruneSubgraphsWithMoreThanOneInput, lines 420-431, the bodies of the
\* functions copied into new_mod going through VarRenamer with them
PruneSubgraphsWithMoreThanOneInput(m, compiler) ==
    LET st == SubgraphRemover(ArityRemoveSet(m, compiler), m)
        site(nm) == CHOOSE i \in 1..Len(st.main) :
                       st.main[i].kind = "call" /\ st.main[i].fn = nm
    IN [funcs |-> st.funcs, main |-> st.main,
        exprs |-> [nm \in DOMAIN st.funcs |->
                      RenameExpr(nm, m.exprs[m.main[site(nm)].fn])]]

\* the functions MergeComposite makes: parameter FunctionVar_<n>_0
CompositeVar(n) == <<"FunctionVar", Str(n), "0">>
Composite(n, body) == RelayFunction(<<CompositeVar(n)>>, body, "", "tidl.relu")
Relu(p) == RelayCall("nn.relu", <<p>>)
ReluComposite(arg) == RelayApply(Composite(0, Relu(RelayVar(CompositeVar(0)))), <<arg>>)
\* the body of a partitioned function over its parameter p
Shapes == {"plain", "composite", "inOperator", "inArgument", "inBody", "function"}
BodyOf(shape, p) ==
    CASE shape = "plain" -> Relu(p)
      [] shape = "composite" -> ReluComposite(p)
      [] shape = "inOperator" -> Relu(ReluComposite(p))
      [] shape = "inArgument" ->
            RelayApply(Composite(1, RelayCall("add", <<RelayVar(CompositeVar(1)),
                                                      RelayVar(CompositeVar(1))>>)),
                       <<ReluComposite(p)>>)
      [] shape = "inBody" ->
            RelayApply(Composite(1, ReluComposite(RelayVar(CompositeVar(1)))), <<p>>)
      [] shape = "function" ->
            RelayApply(RelayFunction(<<CompositeVar(1)>>,
                                     ReluComposite(RelayVar(CompositeVar(1))), "", ""),
                       <<p>>)

UnpackOptions ==
    {[k |-> "tidl", mac |-> 1, shape |-> s] : s \in Shapes}
    \cup {[k |-> x, mac |-> 1, shape |-> "composite"] : x \in {"tidl2", "dnnl"}}
    \cup {[k |-> x, mac |-> 0, shape |-> "plain"] : x \in {"op", "dup"}}
ExprAt(o, i) ==
    LET f == FuncAt(o, i)
        first == BodyOf(o[i].shape, RelayVar(f.params[1].name))
    IN IF Len(f.params) = 2
       THEN RelayCall("add", <<first, RelayVar(f.params[2].name)>>)
       ELSE first
UnpackModule(o) ==
    LET m == BuildModule(o) IN
    [funcs |-> m.funcs, main |-> m.main,
     exprs |-> [nm \in DOMAIN m.funcs |->
                   ExprAt(o, CHOOSE i \in 1..Len(o) :
                                o[i].k \notin {"op", "dup"} /\ NameAt(o, i) = nm)]]
UnpackInputs ==
    {UnpackModule(o) :
        o \in {q \in UNION {[1..n -> UnpackOptions] : n \in 0..MaxSites} :
                  WellFormedOptions(q)}}

InitUnpack == PassInit(UnpackInputs)

Current == IF pass_mid = <<>> THEN pass_in ELSE pass_mid[Len(pass_mid)]

\* line 1340
Unpack ==
    /\ ppc \in {"call", "again"}
    /\ pass_mid' = Append(pass_mid, UnpackComposites(Current, "tidl"))
    /\ ppc' = "unpacked"
    /\ UNCHANGED <<pass_in, pass_out>>
    /\ PassOthers

\* line 1341
PruneMoreThanOneInput ==
    /\ ppc = "unpacked"
    /\ pass_mid' = Append(pass_mid, PruneSubgraphsWithMoreThanOneInput(Current, "tidl"))
    /\ ppc' = IF Len(pass_mid) = 1 THEN "again" ELSE "done"
    /\ pass_out' = IF Len(pass_mid) = 1 THEN pass_out ELSE pass_mid'[Len(pass_mid')]
    /\ UNCHANGED pass_in
    /\ PassOthers

NextUnpack == Unpack \/ PruneMoreThanOneInput
SpecUnpack == InitUnpack /\ [][NextUnpack]_vars

RECURSIVE HasCompositeCall(_)
HasCompositeCall(e) ==
    \/ IsApply(e) /\ e.fn[1].composite # ""
    \/ \E j \in 1..Len(e.args) : HasCompositeCall(e.args[j])
    \/ \E j \in 1..Len(e.fn) : HasCompositeCall(e.fn[j].body)
\* e with every composite call, wherever it stands, replaced by the
\* composite's body on the call's arguments
RECURSIVE WithoutComposites(_)
WithoutComposites(e) ==
    LET args == [j \in 1..Len(e.args) |-> WithoutComposites(e.args[j])]
    IN IF IsApply(e) /\ e.fn[1].composite # ""
       THEN VarReplacer([nm \in Range(e.fn[1].params) |->
                            args[CHOOSE j \in 1..Len(args) : e.fn[1].params[j] = nm]],
                        WithoutComposites(e.fn[1].body))
       ELSE [e EXCEPT !.args = args,
                      !.fn = [j \in 1..Len(e.fn) |->
                                 [e.fn[j] EXCEPT !.body = WithoutComposites(@)]]]

\* C23: after UnpackComposites no tagged subgraph holds a call of a
\* composite function, whether the call stood in the subgraph's body, in
\* the argument of a composite call or in the body of another composite,
\* and every inlined body has its parameters replaced by the arguments.
C23_NoCompositeCallLeft ==
    pass_mid # <<>> =>
        \A nm \in Tagged(pass_in, "tidl") :
           /\ ~HasCompositeCall(pass_mid[1].exprs[nm])
           /\ pass_mid[1].exprs[nm] = WithoutComposites(pass_in.exprs[nm])

\* C24: UnpackComposites and then PruneSubgraphsWithMoreThanOneInput,
\* applied to a module that is already their result, return that module:
\* the same subgraph names, parameters and bodies and the same main.
C24_SecondRoundChangesNothing ==
    ppc = "done" => pass_mid[4] = pass_mid[2]

====
